---- MODULE Spec2Model ----
(***************************************************************************)
(* Verification model of onion-vanity-address: the batched vanity-key      *)
(* search (prefix.go: search, vectorDivision, add, publicKeyFor), the      *)
(* prefix matcher (prefix.go: matchAnyOf, hasPrefix, decodePrefixBits,     *)
(* hasPrefixBits), the worker coordinator (main.go: parallel) and the      *)
(* command-line paths around them (main.go, service.go).                   *)
(*                                                                         *)
(* The curve arithmetic of filippo.io/edwards25519 is modelled on a        *)
(* twisted Edwards curve of the same shape over a small field:             *)
(*   -x^2 + y^2 = 1 + d x^2 y^2  over F_p,  p = 2^(KeyBits-1) - 3,          *)
(* with cofactor 8 and a base point of prime order GroupL, so that         *)
(* p = 5 mod 8, -1 is a square and d is not, exactly as for edwards25519   *)
(* (p = 2^255 - 19).  A key is a KeyBits-bit little-endian integer whose   *)
(* top bit is the sign bit of x (bit 7 of byte 31 in the program).         *)
(***************************************************************************)
EXTENDS Integers, Sequences, FiniteSets, TLC

\* ------------------------------------------------------------------ bounds
MaxBatches == 2
MaxStartOffset == 1
HalfBatchMax == 2
MaxStartKey == 24

\* ------------------------------------------------- field (vanity25519/field)
KeyBits == 10
CurveD == 88
SignBit == 2^(KeyBits - 1)
KeySpace == 2^KeyBits
FieldP == SignBit - 3
GroupL == 2^(KeyBits - 4) + 3

FAdd(a, b) == (a + b) % FieldP
FSub(a, b) == (a + FieldP - b) % FieldP
FMul(a, b) == (a * b) % FieldP
FNeg(a) == (FieldP - a) % FieldP

\* field.Element.Invert: 1/z mod p, and 0 for z = 0
\* (mutant) an inversion that gives 1 for 0
FInvertZeroToOne(z) ==
    IF z = 0 THEN 1 ELSE CHOOSE v \in 1..508 : (z * v) % 509 = 1

FInvTable == [z \in 0..(FieldP - 1) |->
                IF z = 0 THEN 0
                ELSE CHOOSE v \in 1..(FieldP - 1) : (z * v) % FieldP = 1]
FInvert(z) == FInvTable[z]

\* field.Element.SetBytes: the top bit is ignored, non-canonical values reduce
FSetBytes(b) == (b % SignBit) % FieldP

\* field.Element.Bytes: the canonical little-endian encoding (top bit 0)
FBytes(a) == a % FieldP

\* a square root of a, or -1 when a is no square
FSqrtTable == [a \in 0..(FieldP - 1) |->
                 IF \E r \in 0..(FieldP - 1) : (r * r) % FieldP = a
                 THEN CHOOSE r \in 0..(FieldP - 1) : (r * r) % FieldP = a
                 ELSE -1]

\* ------------------------------------------- points (filippo.io/edwards25519)
\* A point is <<X, Y, Z, T>> in extended coordinates: x = X/Z, y = Y/Z, T = XY/Z.
PointIdentity == <<0, 1, 1, 0>>

\* Point.Add: add-2008-hwcd-3 through projCached and projP1xP1 (the two
\* operands are evaluated once, then combined)
PointAdd(p, r) ==
    LET Sum(a, b) ==
            LET PP == FMul(FAdd(a[2], a[1]), FAdd(b[2], b[1]))
                MM == FMul(FSub(a[2], a[1]), FSub(b[2], b[1]))
                TT2d == FMul(a[4], FMul(b[4], FMul(2, CurveD)))
                ZZ2 == FMul(2, FMul(a[3], b[3]))
                E == FSub(PP, MM)
                H == FAdd(PP, MM)
                G == FAdd(ZZ2, TT2d)
                F == FSub(ZZ2, TT2d)
            IN  <<FMul(E, F), FMul(H, G), FMul(G, F), FMul(E, H)>>
    IN  CHOOSE s \in {Sum(a, b) : a \in {p}, b \in {r}} : TRUE

\* Point.Equal: equality of the affine points
PointEqual(p, r) ==
    /\ FMul(p[1], r[3]) = FMul(r[1], p[3])
    /\ FMul(p[2], r[3]) = FMul(r[2], p[3])

RECURSIVE PointMul(_, _)
\* Point.ScalarMult: k * p for a scalar 0 <= k
PointMul(k, p) ==
    IF k = 0 THEN PointIdentity
    ELSE LET h == PointMul(k \div 2, p)
             d == PointAdd(h, h)
         IN  IF k % 2 = 1 THEN PointAdd(d, p) ELSE d

\* Point.SetBytes: <<TRUE, point>> or <<FALSE, _>> when b encodes no curve point
PointSetBytes(b) ==
    LET y == FSetBytes(b)
        yy == FMul(y, y)
        u == FSub(yy, 1)
        v == FAdd(FMul(CurveD, yy), 1)
        xx == FMul(u, FInvert(v))
        r == FSqrtTable[xx]
        x == IF r % 2 = b \div SignBit THEN r ELSE FNeg(r)
    IN  IF r = -1 THEN <<FALSE, PointIdentity>>
        ELSE <<TRUE, <<x, y, 1, FMul(x, y)>> >>

\* Point.Bytes: the y coordinate with the sign of x in the top bit
PointBytes(p) ==
    LET zInv == FInvert(p[3])
        x == FMul(p[1], zInv)
        y == FMul(p[2], zInv)
    IN  y + (x % 2) * SignBit

\* edwards25519.NewGeneratorPoint: the base point, of prime order GroupL
BasePoint == <<384, 25, 1, FMul(384, 25)>>

\* _B8 = 8 * B
B8 == LET p2 == PointAdd(BasePoint, BasePoint)
          p4 == PointAdd(p2, p2)
      IN  PointAdd(p4, p4)

\* ------------------------------------------------------ search (prefix.go)
NumWorkers == 2
Workers == 1..NumWorkers

\* the accept functions a search is run with: <<bits, val>> accepts the
\* candidates whose low `bits` bits equal val (val = 2^bits accepts none)
TestFns == {<<0, 0>>, <<0, 1>>, <<1, 1>>, <<2, 1>>, <<2, 2>>}
Test(t, b) == b % (2^t[1]) = t[2]

\* a *big.Int is <<>> (nil) or <<n>>
NilPtr == <<>>

\* affine.fromP3 (the operand is evaluated once)
AffineFromP3(p) ==
    LET Affine(a) ==
            LET zInv == FInvert(FSetBytes(FBytes(a[3])))
                X == FMul(FSetBytes(FBytes(a[1])), zInv)
                Y == FMul(FSetBytes(FBytes(a[2])), zInv)
            IN  <<X, Y, FMul(X, Y)>>
    IN  CHOOSE s \in {Affine(a) : a \in {p}} : TRUE

\* affine.fromP3zInv
AffineFromP3zInv(p, zInv) ==
    LET X == FMul(FSetBytes(FBytes(p[1])), zInv)
        Y == FMul(FSetBytes(FBytes(p[2])), zInv)
    IN  <<X, Y, FMul(X, Y)>>

RECURSIVE VDForward(_, _, _, _, _)
\* vectorDivision, first loop: u[i] = py * x[i]; py = py * y[i]
VDForward(x, y, u, py, i) ==
    IF i > Len(x) THEN <<u, py>>
    ELSE VDForward(x, y, [u EXCEPT ![i] = FMul(py, x[i])], FMul(py, y[i]), i + 1)

RECURSIVE VDBackward(_, _, _, _)
\* vectorDivision, second loop: u[i] = pyInv * u[i]; pyInv = pyInv * y[i]
VDBackward(y, u, pyInv, i) ==
    IF i < 2 THEN <<u, pyInv>>
    ELSE VDBackward(y, [u EXCEPT ![i] = FMul(pyInv, u[i])], FMul(pyInv, y[i]), i - 1)

\* vectorDivision(x, y, u): the new contents of u (index 1 is the code's index 0)
VectorDivision(x, y, u) ==
    LET f == VDForward(x, y, u, y[1], 2)
        b == VDBackward(y, f[1], FInvert(f[2]), Len(x))
    IN  [b[1] EXCEPT ![1] = FMul(b[2], x[1])]

\* scalarFromBigInt: SetUniformBytes reduces modulo the group order
ScalarFromBigInt(n) == n % GroupL

RECURSIVE Poi(_)
\* poi after k - 1 rounds of poi.Add(poi, _B8): k * _B8
Poi(k) == IF k <= 1 THEN B8 ELSE PointAdd(Poi(k - 1), B8)

\* offsets[i] = (i+1) * _B8 in affine form, for i < batchSize/2
OffsetsTable(N) == [k \in 1..(N \div 2) |-> AffineFromP3(Poi(k))]

\* batchOffset = (batchSize+1) * _B8
BatchOffset(N) == PointAdd(PointAdd(B8, Poi(N \div 2)), Poi(N \div 2))

\* startOffset == nil || startOffset.Sign() == -1
OffsetInvalid(off) == off = NilPtr \/ off[1] < 0

\* (mutant) the parity of batchSize is not checked
BatchSizeInvalidNoParity(N) == N <= 0

\* batchSize <= 0 || batchSize%2 != 0
BatchSizeInvalid(N) == N <= 0 \/ N % 2 # 0

\* SetBytes(startPublicKey) returns an error
KeyInvalid(pk) == ~PointSetBytes(pk)[1]

\* the panics of search before its loop: the three argument checks, bigIntBytes
\* (an offset of 2^255 or more) and the index batchSize/2-1 of the offsets table
SearchPanics(pk, off, N) ==
    \/ OffsetInvalid(off)
    \/ BatchSizeInvalid(N)
    \/ KeyInvalid(pk)
    \/ off[1] >= SignBit
    \/ N \div 2 < 1

\* the projective centre p before the first batch:
\* startPublicKey + startOffset*_B8 + (batchSize/2)*_B8
SearchStartPoint(pk, off, N) ==
    LET p0 == PointSetBytes(pk)[2]
        po == PointMul(ScalarFromBigInt(off[1]), B8)
    IN  PointAdd(PointAdd(p0, po), Poi(N \div 2))

RECURSIVE BatchFill(_, _, _, _, _)
\* the loop over j < batchSize/2 that fills ynum and yden
BatchFill(a, offs, half, nd, j) ==
    IF j >= half THEN nd
    ELSE LET p2 == offs[j + 1]
             x1y2 == FMul(a[1], p2[2])
             y1x2 == FMul(a[2], p2[1])
             num == [nd[1] EXCEPT ![j + 1] = FSub(a[3], p2[3]),
                                  ![half + j + 1] = FAdd(a[3], p2[3])]
             den == [nd[2] EXCEPT ![j + 1] = FSub(x1y2, y1x2),
                                  ![half + j + 1] = FAdd(x1y2, y1x2)]
         IN  BatchFill(a, offs, half, <<num, den>>, j + 1)

Zeros(n) == [k \in 1..n |-> 0]

\* ynum and yden of one batch, with the piggybacked 1/p.Z in the last place
BatchNumDen(a, pNext, N) ==
    LET nd == BatchFill(a, OffsetsTable(N), N \div 2, <<Zeros(N + 1), Zeros(N + 1)>>, 0)
    IN  <<[nd[1] EXCEPT ![N + 1] = 1],
          [nd[2] EXCEPT ![N + 1] = FSetBytes(FBytes(pNext[3]))]>>

\* (mutant) the loop counter returned as it is, the half batch not subtracted
SearchReturnValueUnshifted(iv, N) == iv

\* the value search returns when it sees the context done
SearchReturnValue(iv, N) == iv - (N \div 2)

\* (mutant) the second half of the batch counted from the start of the batch
CandidateOffsetWholeIndex(off, iv, jv, N) ==
    IF jv = N THEN off[1] + iv
    ELSE IF jv < N \div 2 THEN off[1] + iv + (jv + 1)
    ELSE off[1] + iv - (jv + 1)

\* the offset passed to yield for candidate j (j = batchSize: the centre)
CandidateOffset(off, iv, jv, N) ==
    IF jv = N THEN off[1] + iv
    ELSE IF jv < N \div 2 THEN off[1] + iv + (jv + 1)
    ELSE off[1] + iv - (jv + 1 - N \div 2)

\* -------------------------------------- add and publicKeyFor (prefix.go)
\* fieldElementFromBigInt: bigIntBytes, then field.Element.SetBytes
FieldElementFromBigInt(n) == FSetBytes(n)

\* (mutant) add that clamps its result
AddClamped(startPrivateKey, offset) ==
    LET sum == ((startPrivateKey % SignBit) + 8 * (offset % SignBit)) % FieldP
        low == sum - (sum % 8)
    IN  IF low >= SignBit \div 2 THEN low ELSE low + SignBit \div 2

\* add(startPrivateKey, offset): s + 8*offset in the field, as bytes
Add(startPrivateKey, offset) ==
    LET s == FSetBytes(startPrivateKey)
        so == FMul(FieldElementFromBigInt(offset), 8)
    IN  FBytes(FAdd(s, so))

\* the clamping of Scalar.SetBytesWithClamping: clear bits 0-2 of the first
\* byte, clear bit 7 and set bit 6 of the last byte
Clamp(b) ==
    LET low == (b % SignBit) - (b % 8)
    IN  IF low >= SignBit \div 2 THEN low ELSE low + SignBit \div 2

BaseMulTable == [k \in 0..(GroupL - 1) |-> PointMul(k, BasePoint)]

\* Point.ScalarBaseMult of a scalar, which is kept reduced modulo the group order
ScalarBaseMult(s) == BaseMulTable[s % GroupL]

\* publicKeyFor(privateKey)
PublicKeyFor(privateKey) == PointBytes(ScalarBaseMult(Clamp(privateKey)))

\* ------------------------------------- prefix matcher (prefix.go, main.go)
\* a string is a sequence of one-character strings, a []byte a sequence of 0..255
onionBase32EncodingCharset ==
    <<"a", "b", "c", "d", "e", "f", "g", "h", "i", "j", "k", "l", "m", "n", "o", "p",
      "q", "r", "s", "t", "u", "v", "w", "x", "y", "z", "2", "3", "4", "5", "6", "7">>

InCharset(charset, c) == \E k \in 1..Len(charset) : charset[k] = c
CharValue(charset, c) == (CHOOSE k \in 1..Len(charset) : charset[k] = c) - 1

\* bit k (from 0, most significant bit of a byte first) of a byte sequence,
\* 0 past its end
ByteBit(bytes, k) ==
    IF k \div 8 + 1 > Len(bytes) THEN 0
    ELSE (bytes[k \div 8 + 1] \div 2^(7 - (k % 8))) % 2

\* bit k of a sequence of characters of 5 bits each
CharBit(charset, chars, k) ==
    (CharValue(charset, chars[k \div 5 + 1]) \div 2^(4 - (k % 5))) % 2

\* base32.Encoding.EncodeToString, without padding
Base32Encode(charset, bytes) ==
    LET Encode(b) ==
            [c \in 1..((8 * Len(b) + 4) \div 5) |->
                charset[1 + 16 * ByteBit(b, 5 * c - 5) + 8 * ByteBit(b, 5 * c - 4)
                          + 4 * ByteBit(b, 5 * c - 3) + 2 * ByteBit(b, 5 * c - 2)
                          + ByteBit(b, 5 * c - 1)]]
    IN  CHOOSE text \in {Encode(b) : b \in {bytes}} : TRUE

\* base32.Encoding.Decode of whole quanta of 8 characters: <<err, bytes>>
Base32Decode(charset, chars) ==
    IF \E k \in 1..Len(chars) : ~InCharset(charset, chars[k])
    THEN <<TRUE, <<>> >>
    ELSE <<FALSE,
           [m \in 1..(5 * (Len(chars) \div 8)) |->
               128 * CharBit(charset, chars, 8 * m - 8) + 64 * CharBit(charset, chars, 8 * m - 7)
               + 32 * CharBit(charset, chars, 8 * m - 6) + 16 * CharBit(charset, chars, 8 * m - 5)
               + 8 * CharBit(charset, chars, 8 * m - 4) + 4 * CharBit(charset, chars, 8 * m - 3)
               + 2 * CharBit(charset, chars, 8 * m - 2) + CharBit(charset, chars, 8 * m - 1)]>>

\* strings.Repeat of a one-character string
Repeat(c, n) == [k \in 1..n |-> c]

\* strings.HasPrefix, bytes.HasPrefix
HasPrefixSeq(s, prefix) ==
    Len(prefix) <= Len(s) /\ SubSeq(s, 1, Len(prefix)) = prefix

\* (mutant) the prefix is padded with the alphabet's last character
DecodePrefixBitsPadLast(prefix, charset) ==
    LET quantums == (Len(prefix) + 7) \div 8
        padded == prefix \o [k \in 1..(quantums * 8 - Len(prefix)) |-> charset[32]]
        Value(c) == (CHOOSE k \in 1..32 : charset[k] = c) - 1
        Bit(k) == (Value(padded[k \div 5 + 1]) \div 2^(4 - (k % 5))) % 2
    IN  IF \E k \in 1..Len(padded) : \A m \in 1..32 : charset[m] # padded[k]
        THEN [err |-> TRUE, buf |-> <<>>, bits |-> 0]
        ELSE [err |-> FALSE,
              buf |-> [m \in 1..(5 * quantums) |->
                         128 * Bit(8 * m - 8) + 64 * Bit(8 * m - 7) + 32 * Bit(8 * m - 6)
                         + 16 * Bit(8 * m - 5) + 8 * Bit(8 * m - 4) + 4 * Bit(8 * m - 3)
                         + 2 * Bit(8 * m - 2) + Bit(8 * m - 1)],
              bits |-> 5 * Len(prefix)]

\* decodePrefixBits(prefix, enc): [err, buf, bits]
DecodePrefixBits(prefix, charset) ==
    LET decodedBits == 5 * Len(prefix)
        quantums == (Len(prefix) + 7) \div 8
        zeroChar == Base32Encode(charset, <<0>>)[1]
        padded == prefix \o Repeat(zeroChar, quantums * 8 - Len(prefix))
        dec == Base32Decode(charset, padded)
    IN  IF dec[1] THEN [err |-> TRUE, buf |-> <<>>, bits |-> 0]
        ELSE [err |-> FALSE, buf |-> dec[2], bits |-> decodedBits]

\* what a function returning (func([]byte) bool, error) did
NoPred == [kind |-> "none", prefix |-> <<>>, prefixBytes |-> 0, shift |-> 0,
           tailByte |-> 0, tests |-> <<>>]
Failed(how) == [status |-> how, pred |-> NoPred]
Returned(pred) == [status |-> "ok", pred |-> pred]

\* hasPrefixBits(prefix, bits): a panic, or one of its two closures
HasPrefixBits(prefix, bits) ==
    IF Len(prefix) = 0 \/ Len(prefix) > 32 THEN Failed("panic")
    ELSE IF bits <= 0 \/ bits > 256 \/ bits > Len(prefix) * 8 THEN Failed("panic")
    ELSE IF bits % 8 = 0
    THEN Returned([NoPred EXCEPT !.kind = "bytes", !.prefix = prefix])
    ELSE LET prefixBytes == bits \div 8
             shift == 8 - (bits % 8)
         IN  Returned([NoPred EXCEPT !.kind = "bits",
                                     !.prefix = SubSeq(prefix, 1, prefixBytes),
                                     !.prefixBytes = prefixBytes,
                                     !.shift = shift,
                                     !.tailByte = prefix[prefixBytes + 1] \div 2^shift])

\* the closures hasPrefixBits returns, applied to b
PredTrue(pred, b) ==
    IF pred.kind = "bytes" THEN HasPrefixSeq(b, pred.prefix)
    ELSE /\ Len(b) > pred.prefixBytes
         /\ SubSeq(b, 1, pred.prefixBytes) = pred.prefix
         /\ b[pred.prefixBytes + 1] \div 2^pred.shift = pred.tailByte

\* hasPrefix(prefix, enc)
HasPrefix(prefix, charset) ==
    LET d == DecodePrefixBits(prefix, charset)
    IN  IF d.err THEN Failed("error") ELSE HasPrefixBits(d.buf, d.bits)

\* addressMatch(prefix)
AddressMatch(prefix) ==
    IF Len(prefix) = 0 THEN Failed("error")
    ELSE IF \E k \in 1..Len(prefix) : ~InCharset(onionBase32EncodingCharset, prefix[k])
    THEN Failed("error")
    ELSE HasPrefix(prefix, onionBase32EncodingCharset)

clientBase32EncodingCharset ==
    <<"A", "B", "C", "D", "E", "F", "G", "H", "I", "J", "K", "L", "M", "N", "O", "P",
      "Q", "R", "S", "T", "U", "V", "W", "X", "Y", "Z", "2", "3", "4", "5", "6", "7">>

\* clientMatch(prefix)
ClientMatch(prefix) ==
    IF Len(prefix) = 0 THEN Failed("error")
    ELSE IF \E k \in 1..Len(prefix) : ~InCharset(clientBase32EncodingCharset, prefix[k])
    THEN Failed("error")
    ELSE HasPrefix(prefix, clientBase32EncodingCharset)

\* the match argument of matchAnyOf: clientMatch with --client, else addressMatch
Match(client, prefix) ==
    IF client THEN ClientMatch(prefix) ELSE AddressMatch(prefix)

\* matchAnyOf(prefixes, match)
MatchAnyOf(prefixes, client) ==
    IF Len(prefixes) = 0 THEN Failed("error")
    ELSE IF Len(prefixes) = 1 THEN Match(client, prefixes[1])
    ELSE LET tests == [k \in 1..Len(prefixes) |-> Match(client, prefixes[k])]
             bad == {k \in 1..Len(prefixes) : tests[k].status # "ok"}
             first == CHOOSE k \in bad : \A m \in bad : k <= m
         IN  IF bad # {} THEN Failed(tests[first].status)
             ELSE Returned([NoPred EXCEPT !.kind = "any",
                                          !.tests = [k \in 1..Len(prefixes) |-> tests[k].pred]])

\* history of a call of matchAnyOf: what decodePrefixBits returned for each
\* prefix it was called on, by the place of the prefix in the list. match is
\* called on the prefixes in order up to the first that fails, and reaches
\* hasPrefix for a prefix that is not empty and has only characters of the
\* alphabet (main.go 262-284)
DecodeCalls(prefixes, client) ==
    LET charset == IF client THEN clientBase32EncodingCharset
                   ELSE onionBase32EncodingCharset
        bad == {k \in 1..Len(prefixes) : Match(client, prefixes[k]).status # "ok"}
        last == IF bad = {} THEN Len(prefixes)
                ELSE CHOOSE k \in bad : \A m \in bad : k <= m
        called == {k \in 1..last :
                     /\ Len(prefixes[k]) > 0
                     /\ \A c \in 1..Len(prefixes[k]) : InCharset(charset, prefixes[k][c])}
    IN  [k \in called |-> DecodePrefixBits(prefixes[k], charset)]

\* the function matchAnyOf returns, applied to p
MatchTrue(pred, p) ==
    IF pred.kind = "any" THEN \E k \in 1..Len(pred.tests) : PredTrue(pred.tests[k], p)
    ELSE PredTrue(pred, p)

\* (mutant) the first supplied prefix that matches, whatever its length
FirstMatching(prefixes, value) ==
    LET matching == {k \in 1..Len(prefixes) : HasPrefixSeq(value, prefixes[k])}
    IN  IF matching = {} THEN [status |-> "panic", value |-> <<>>]
        ELSE [status |-> "ok",
              value |-> prefixes[CHOOSE k \in matching : \A m \in matching : k <= m]]

RECURSIVE LongestLoop(_, _, _, _)
\* the loop of longestMatching from prefix k on
LongestLoop(prefixes, value, k, longest) ==
    IF k > Len(prefixes) THEN longest
    ELSE IF HasPrefixSeq(value, prefixes[k]) /\ Len(prefixes[k]) > Len(longest)
    THEN LongestLoop(prefixes, value, k + 1, prefixes[k])
    ELSE LongestLoop(prefixes, value, k + 1, longest)

\* longestMatching(prefixes, value): the prefix returned, or a panic
LongestMatching(prefixes, value) ==
    LET longest == LongestLoop(prefixes, value, 1, <<>>)
    IN  IF longest = <<>> THEN [status |-> "panic", value |-> <<>>]
        ELSE [status |-> "ok", value |-> longest]

\* stands for SHA3-256(".onion checksum" | PUBKEY | VERSION)[:2]: two bytes
\* that depend on the whole key
Checksum(publicKey) ==
    LET RECURSIVE Mix(_, _)
        Mix(k, acc) == IF k > Len(publicKey) THEN acc
                       ELSE Mix(k + 1, (acc * 31 + publicKey[k] + k) % 65536)
        h == Mix(1, 3)
    IN  <<h \div 256, h % 256>>

\* encodeOnionAddress(publicKey)
EncodeOnionAddress(publicKey) ==
    LET Encode(pk) ==
            Base32Encode(onionBase32EncodingCharset, pk \o Checksum(pk) \o <<3>>)
                \o <<".", "o", "n", "i", "o", "n">>
    IN  CHOOSE address \in {Encode(pk) : pk \in {publicKey}} : TRUE

\* ------------------------------------------- the offset on the command line
\* the alphabet of base64.StdEncoding
base64StdCharset ==
    <<"A", "B", "C", "D", "E", "F", "G", "H", "I", "J", "K", "L", "M", "N", "O", "P",
      "Q", "R", "S", "T", "U", "V", "W", "X", "Y", "Z", "a", "b", "c", "d", "e", "f",
      "g", "h", "i", "j", "k", "l", "m", "n", "o", "p", "q", "r", "s", "t", "u", "v",
      "w", "x", "y", "z", "0", "1", "2", "3", "4", "5", "6", "7", "8", "9", "+", "/">>

\* bit k of a sequence of base64 characters of 6 bits each
Char64Bit(chars, k) ==
    (CharValue(base64StdCharset, chars[k \div 6 + 1]) \div 2^(5 - (k % 6))) % 2

\* base64.StdEncoding.EncodeToString: 6 bits a character, "=" up to a
\* multiple of 4 characters
Base64Encode(bytes) ==
    LET Encode(b) ==
            LET n == (8 * Len(b) + 5) \div 6
                chars == [c \in 1..n |->
                            base64StdCharset[1 + 32 * ByteBit(b, 6 * c - 6) + 16 * ByteBit(b, 6 * c - 5)
                                               + 8 * ByteBit(b, 6 * c - 4) + 4 * ByteBit(b, 6 * c - 3)
                                               + 2 * ByteBit(b, 6 * c - 2) + ByteBit(b, 6 * c - 1)]]
            IN  chars \o Repeat("=", (4 - (n % 4)) % 4)
    IN  CHOOSE text \in {Encode(b) : b \in {bytes}} : TRUE

\* base64.StdEncoding.DecodeString: <<err, bytes>>; the decoder skips the
\* characters \r and \n wherever they are
Base64Decode(text) ==
    LET Pad(chars) ==
            IF Len(chars) >= 2 /\ chars[Len(chars)] = "=" /\ chars[Len(chars) - 1] = "=" THEN 2
            ELSE IF Len(chars) >= 1 /\ chars[Len(chars)] = "=" THEN 1
            ELSE 0
        Decode(chars, body) ==
            IF \/ Len(chars) % 4 # 0
               \/ \E k \in 1..Len(body) : ~InCharset(base64StdCharset, body[k])
            THEN <<TRUE, <<>> >>
            ELSE <<FALSE,
                   [m \in 1..((6 * Len(body)) \div 8) |->
                       128 * Char64Bit(body, 8 * m - 8) + 64 * Char64Bit(body, 8 * m - 7)
                       + 32 * Char64Bit(body, 8 * m - 6) + 16 * Char64Bit(body, 8 * m - 5)
                       + 8 * Char64Bit(body, 8 * m - 4) + 4 * Char64Bit(body, 8 * m - 3)
                       + 2 * Char64Bit(body, 8 * m - 2) + Char64Bit(body, 8 * m - 1)]>>
    IN  CHOOSE r \in UNION {{Decode(chars, body)
                                : body \in {SubSeq(chars, 1, Len(chars) - Pad(chars))}}
                                : chars \in {SelectSeq(text, LAMBDA c : c \notin {"\n", "\r"})}} : TRUE

\* reverse (prefix.go), also the little-endian reading of big-endian bytes
Reverse(b) == [k \in 1..Len(b) |-> b[Len(b) + 1 - k]]

RECURSIVE IntBytesLittleEndian(_)
\* (mutant) the bytes of the offset least significant byte first
IntBytesLittleEndian(n) ==
    IF n = 0 THEN <<>> ELSE <<n % 256>> \o IntBytesLittleEndian(n \div 256)

RECURSIVE IntBytes(_)
\* big.Int.Bytes: the absolute value, big-endian, no leading zero byte
IntBytes(n) == IF n = 0 THEN <<>> ELSE Append(IntBytes(n \div 256), n % 256)

RECURSIVE IntSetBytes(_)
\* big.Int.SetBytes: the bytes read as a big-endian unsigned integer
IntSetBytes(b) ==
    IF Len(b) = 0 THEN 0
    ELSE 256 * IntSetBytes(SubSeq(b, 1, Len(b) - 1)) + b[Len(b)]

\* the text after "offset: " that searchServiceKey prints for found
OffsetText(found) == Base64Encode(IntBytes(found))

\* main.go 124-137: what main makes of --offset: search mode when the flag is
\* empty, a usage error when it is not base64, else the offset to apply
OffsetFlag(offsetFlag) ==
    IF offsetFlag = <<>> THEN [mode |-> "search", offset |-> NilPtr]
    ELSE LET d == Base64Decode(offsetFlag)
         IN  IF d[1] THEN [mode |-> "error", offset |-> NilPtr]
             ELSE [mode |-> "offset", offset |-> <<IntSetBytes(d[2])>>]

\* ------------------------------------------------ key envelopes (service.go)
\* service.go 13-19
publicKeyFilePrefix ==
    <<61, 61, 32, 101, 100, 50, 53, 53, 49, 57, 118, 49, 45, 112, 117, 98, 108, 105, 99,
      58, 32, 116, 121, 112, 101, 48, 32, 61, 61, 0, 0, 0>>

secretKeyFilePrefix ==
    <<61, 61, 32, 101, 100, 50, 53, 53, 49, 57, 118, 49, 45, 115, 101, 99, 114, 101, 116,
      58, 32, 116, 121, 112, 101, 48, 32, 61, 61, 0, 0, 0>>

secretKeyFileLength == 96

\* bytes.CutPrefix(b, prefix): <<rest, ok>>
CutPrefix(b, prefix) ==
    IF Len(b) >= Len(prefix) /\ SubSeq(b, 1, Len(prefix)) = prefix
    THEN <<SubSeq(b, Len(prefix) + 1, Len(b)), TRUE>>
    ELSE <<b, FALSE>>

\* a key reader's result: an error, or the key
KeyError(what) == [err |-> what, key |-> <<>>]
KeyOk(k) == [err |-> "", key |-> k]

\* parseServiceSecretKey(b)
ParseServiceSecretKey(b) ==
    LET cut == CutPrefix(b, secretKeyFilePrefix)
    IN  IF ~cut[2] THEN KeyError("invalid secret key prefix")
        ELSE IF Len(cut[1]) # 64 THEN KeyError("invalid secret key length, must be 64 bytes")
        ELSE KeyOk(SubSeq(cut[1], 1, 32))

\* base64.StdEncoding.EncodedLen
EncodedLen(n) == ((n + 2) \div 3) * 4

\* readServiceSecretKey(r): at most EncodedLen(96) characters are read, and
\* they are decoded into a buffer of 96 bytes that is parsed whole
ReadServiceSecretKey(r) ==
    LET limit == EncodedLen(secretKeyFileLength)
        Parse(dec) ==
            IF dec[1] THEN KeyError("illegal base64 data")
            ELSE ParseServiceSecretKey([i \in 1..secretKeyFileLength |->
                                           IF i <= Len(dec[2]) THEN dec[2][i] ELSE 0])
    IN  CHOOSE k \in {Parse(dec) : dec \in {Base64Decode(
                          SubSeq(r, 1, IF Len(r) < limit THEN Len(r) ELSE limit))}} : TRUE

\* parseServicePublicKey(b)
ParseServicePublicKey(b) ==
    LET cut == CutPrefix(b, publicKeyFilePrefix)
    IN  IF ~cut[2] THEN KeyError("invalid public key prefix")
        ELSE IF Len(cut[1]) # 32 THEN KeyError("invalid public key length, must be 32 bytes")
        ELSE KeyOk(cut[1])

\* decodeServicePublicKey(from)
DecodeServicePublicKey(from) ==
    LET dec == Base64Decode(from)
    IN  IF dec[1] THEN KeyError("illegal base64 data")
        ELSE ParseServicePublicKey(dec[2])

\* serializeServicePublicKey(publicKey)
SerializeServicePublicKey(publicKey) == publicKeyFilePrefix \o publicKey

\* sha512.Sum512 is not computed: 64 bytes that depend on every byte of the
\* input stand for the digest
Sum512(b) ==
    LET c == Checksum(b)
    IN  [i \in 1..64 |-> (c[1] * i + c[2] + 11 * i) % 256]

\* service.go 126-130 with the clamping left out
CopyOnly(hs, secretKey) ==
    [i \in 1..64 |-> IF i <= Len(secretKey) THEN secretKey[i] ELSE hs[i]]

\* service.go 126-130: copy(hs[:], secretKey); hs[0] &= 248; hs[31] &= 63;
\* hs[31] |= 64
CopyAndClamp(hs, secretKey) ==
    [i \in 1..64 |->
        LET c == IF i <= Len(secretKey) THEN secretKey[i] ELSE hs[i]
        IN  IF i = 1 THEN c - (c % 8)
            ELSE IF i = 32 THEN (c % 64) + 64
            ELSE c]

\* serializeServiceSecretKey(secretKey)
SerializeServiceSecretKey(secretKey) ==
    CHOOSE buf \in {secretKeyFilePrefix \o CopyAndClamp(hs, secretKey)
                        : hs \in {Sum512(secretKey)}} : TRUE

\* encodeServiceSecretKey, encodeServicePublicKey
EncodeServiceSecretKey(secretKey) == Base64Encode(SerializeServiceSecretKey(secretKey))
EncodeServicePublicKey(publicKey) == Base64Encode(SerializeServicePublicKey(publicKey))

\* ------------------------------------------------------------------ state
VARIABLES
    startPublicKey,   \* search's startPublicKey argument
    test,             \* search's accept argument (parallel's test)
    frame,            \* frame[w]: the locals of worker w's call of search
    parentDone,       \* the caller's context is done (timeout, SIGINT, SIGTERM)
    cancelCalled,     \* parallel's cancel() has been called
    result,           \* parallel: atomic.Pointer[big.Int]
    vanityPublicKey,  \* parallel: <<>> (nil) or <<pk>>
    attemptsTotal,    \* parallel: atomic.Uint64
    parPc,            \* parallel's own position
    parRet,           \* what parallel returned
    casWins,          \* history: the <<pk, offset>> of every successful CompareAndSwap
    cli,              \* searchServiceKey's locals and the process exit status
    key,              \* a secret key, an offset and what add and publicKeyFor make of them
    pm,               \* the prefixes of the command line and what matchAnyOf makes of them
    ow,               \* an offset, the text printed for it and what --offset makes of the text
    env,              \* a key, the envelope written for it and what reading the envelope gives
    vd,               \* the arrays of a call of vectorDivision and its position
    hb                \* hasPrefixBits called on its own, and its closure

vars == <<startPublicKey, test, frame, parentDone, cancelCalled, result,
          vanityPublicKey, attemptsTotal, parPc, parRet, casWins, cli, key, pm, ow, env, vd, hb>>

parVars == <<result, vanityPublicKey, attemptsTotal, parPc, parRet, casWins, cli>>

searchVars == <<startPublicKey, test, frame, parentDone, cancelCalled>>

pureVars == <<key, pm, ow, env, vd, hb>>

\* the frame of a call of search(ctx, startPublicKey, startOffset, batchSize, ...)
\* that has not run yet; acceptCalls, batches and yields are history
NewFrame(pcv, off, N) ==
    [pc |-> pcv, startOffset |-> off, batchSize |-> N,
     p |-> PointIdentity, pa |-> <<0, 0, 0>>, y |-> <<>>,
     i |-> 0, j |-> 0, yb |-> 0, yarg |-> <<>>, ret |-> 0,
     acceptCalls |-> 0, batches |-> 0, yields |-> <<>>]

\* (mutant) the context of the caller is polled, not the one parallel cancels
CtxDoneOfCaller == parentDone

\* <-ctx.Done() is ready
CtxDone == parentDone \/ cancelCalled

\* lines 133-170: the argument checks and the precomputation
SearchEnter(w) ==
    /\ frame[w].pc = "enter"
    /\ LET f == frame[w] IN
       IF SearchPanics(startPublicKey, f.startOffset, f.batchSize)
       THEN frame' = [frame EXCEPT ![w].pc = "panic"]
       ELSE \E p0 \in {SearchStartPoint(startPublicKey, f.startOffset, f.batchSize)} :
              frame' = [frame EXCEPT ![w].pc = "poll",
                                     ![w].p = p0,
                                     ![w].pa = AffineFromP3(p0),
                                     ![w].i = f.batchSize \div 2]
    /\ UNCHANGED <<startPublicKey, test, parentDone, cancelCalled, parVars, pureVars>>

\* (mutant) the context is polled before every candidate as well
SearchReturnAnywhere(w) ==
    /\ frame[w].pc \in {"poll", "examine"}
    /\ parentDone \/ cancelCalled
    /\ frame' = [frame EXCEPT ![w].pc = "returned",
                              ![w].ret = frame[w].i - frame[w].batchSize \div 2]
    /\ UNCHANGED <<startPublicKey, test, parentDone, cancelCalled, parVars, pureVars>>

\* lines 180-185, context done: return i - batchSize/2
SearchReturn(w) ==
    /\ frame[w].pc = "poll"
    /\ CtxDone
    /\ frame' = [frame EXCEPT ![w].pc = "returned",
                              ![w].ret = SearchReturnValue(frame[w].i, frame[w].batchSize)]
    /\ UNCHANGED <<startPublicKey, test, parentDone, cancelCalled, parVars, pureVars>>

\* lines 180-224, context not done: fill ynum and yden, advance p, divide
SearchBatch(w) ==
    /\ frame[w].pc = "poll"
    /\ ~CtxDone
    /\ frame[w].batches < MaxBatches
    /\ \E pNext \in {PointAdd(frame[w].p, BatchOffset(frame[w].batchSize))} :
       \E nd \in {BatchNumDen(frame[w].pa, pNext, frame[w].batchSize)} :
         LET f == frame[w]
             u == IF f.y = <<>> THEN Zeros(f.batchSize + 1) ELSE f.y
         IN  frame' = [frame EXCEPT ![w].pc = "examine",
                                    ![w].p = pNext,
                                    ![w].y = VectorDivision(nd[1], nd[2], u),
                                    ![w].j = 0,
                                    ![w].batches = f.batches + 1]
    /\ UNCHANGED <<startPublicKey, test, parentDone, cancelCalled, parVars, pureVars>>

\* (mutant) the loop's counter goes on by batchSize, the centre not counted
AdvanceByBatchSize(f) ==
    IF f.j < f.batchSize
    THEN [f EXCEPT !.pc = "examine", !.j = f.j + 1, !.yarg = <<>>]
    ELSE [f EXCEPT !.pc = "poll", !.yarg = <<>>,
                   !.pa = AffineFromP3zInv(f.p, f.y[f.batchSize + 1]),
                   !.i = f.i + f.batchSize]

\* the frame after candidate j is dealt with: the next candidate, or, after
\* the centre, line 248 (pa.fromP3zInv) and the loop's i += batchSize + 1
Advance(f) ==
    IF f.j < f.batchSize
    THEN [f EXCEPT !.pc = "examine", !.j = f.j + 1, !.yarg = <<>>]
    ELSE [f EXCEPT !.pc = "poll", !.yarg = <<>>,
                   !.pa = AffineFromP3zInv(f.p, f.y[f.batchSize + 1]),
                   !.i = f.i + f.batchSize + 1]

\* (mutant) the centre is passed as the encoding of the point, the sign of
\* its x in the top bit
CandidateBytesCentreWithSign(f) ==
    IF f.j < f.batchSize THEN FBytes(f.y[f.j + 1])
    ELSE FBytes(f.pa[2]) + SignBit * (f.pa[1] % 2)

\* the bytes copied into yb for candidate j: y[j], or pa.Y for the centre
CandidateBytes(f) ==
    IF f.j < f.batchSize THEN FBytes(f.y[f.j + 1]) ELSE FBytes(f.pa[2])

\* (mutant) a candidate accepted after the context is done is not yielded
SearchExamineUnlessDone(w) ==
    /\ frame[w].pc = "examine"
    /\ LET f == frame[w]
           b == IF f.j < f.batchSize THEN FBytes(f.y[f.j + 1]) ELSE FBytes(f.pa[2])
           g == [f EXCEPT !.yb = b, !.acceptCalls = f.acceptCalls + 1]
           next == IF f.j < f.batchSize
                   THEN [g EXCEPT !.pc = "examine", !.j = f.j + 1, !.yarg = <<>>]
                   ELSE [g EXCEPT !.pc = "poll", !.yarg = <<>>,
                                  !.pa = AffineFromP3zInv(f.p, f.y[f.batchSize + 1]),
                                  !.i = f.i + f.batchSize + 1]
       IN  IF Test(test, b) /\ ~(parentDone \/ cancelCalled)
           THEN frame' = [frame EXCEPT ![w] =
                    [g EXCEPT !.pc = "yield",
                              !.yarg = <<b, CandidateOffset(f.startOffset, f.i, f.j, f.batchSize)>>]]
           ELSE frame' = [frame EXCEPT ![w] = next]
    /\ UNCHANGED <<startPublicKey, test, parentDone, cancelCalled, parVars, pureVars>>

\* lines 227-245, one candidate: copy into yb, call accept, and on true
\* build the offset and the clone for yield
SearchExamine(w) ==
    /\ frame[w].pc = "examine"
    /\ LET f == frame[w]
           b == CandidateBytes(f)
           g == [f EXCEPT !.yb = b, !.acceptCalls = f.acceptCalls + 1]
       IN  IF Test(test, b)
           THEN frame' = [frame EXCEPT ![w] =
                    [g EXCEPT !.pc = "yield",
                              !.yarg = <<b, CandidateOffset(f.startOffset, f.i, f.j, f.batchSize)>>]]
           ELSE frame' = [frame EXCEPT ![w] = Advance(g)]
    /\ UNCHANGED <<startPublicKey, test, parentDone, cancelCalled, parVars, pureVars>>

\* a yield that only records its arguments (the tests' yield)
YieldRecord(w) ==
    /\ frame[w].pc = "yield"
    /\ LET f == frame[w]
       IN  frame' = [frame EXCEPT ![w] = Advance([f EXCEPT !.yields = Append(f.yields, f.yarg)])]
    /\ UNCHANGED <<startPublicKey, test, parentDone, cancelCalled, parVars, pureVars>>

\* the caller's context becomes done: timeout, SIGINT or SIGTERM
ParentCancel ==
    /\ ~parentDone
    /\ parentDone' = TRUE
    /\ UNCHANGED <<startPublicKey, test, frame, cancelCalled, parVars, pureVars>>

\* ------------------------------------------------ one call of search
StartKeys == {v \in 0..(KeySpace - 1) : v % SignBit <= MaxStartKey \/ v % SignBit >= FieldP}
StartOffsets == {NilPtr} \cup {<<n>> : n \in (-1)..MaxStartOffset}
BatchSizes == (-1)..(2 * HalfBatchMax)

ParIdle ==
    /\ result = NilPtr
    /\ vanityPublicKey = <<>>
    /\ attemptsTotal = 0
    /\ parPc = "none"
    /\ parRet = <<>>
    /\ casWins = <<>>
    /\ cli = <<>>

InitSearch ==
    /\ startPublicKey \in StartKeys
    /\ test \in TestFns
    /\ \E off \in StartOffsets, N \in BatchSizes :
         frame = [w \in Workers |-> IF w = 1 THEN NewFrame("enter", off, N)
                                    ELSE NewFrame("idle", NilPtr, 0)]
    /\ parentDone = FALSE
    /\ cancelCalled = FALSE
    /\ ParIdle
    /\ key = <<>>
    /\ pm = <<>>
    /\ ow = <<>>
    /\ env = <<>>
    /\ vd = <<>>
    /\ hb = <<>>

NextSearch ==
    \/ SearchEnter(1)
    \/ SearchReturn(1)
    \/ SearchBatch(1)
    \/ SearchExamine(1)
    \/ YieldRecord(1)
    \/ ParentCancel

SpecSearch == InitSearch /\ [][NextSearch]_vars

\* ------------------------------------------ add, then publicKeyFor
MaxAddOffset == 3
SecretKeys == 0..(KeySpace - 1)

SearchIdle ==
    /\ startPublicKey = 0
    /\ test = <<0, 0>>
    /\ frame = [w \in Workers |-> NewFrame("idle", NilPtr, 0)]
    /\ parentDone = FALSE
    /\ cancelCalled = FALSE

InitKeys ==
    /\ \E sk \in SecretKeys, off \in 0..MaxAddOffset :
         key = [pc |-> "add", sk |-> sk, offset |-> off, vsk |-> 0, vpk |-> 0]
    /\ SearchIdle
    /\ ParIdle
    /\ pm = <<>>
    /\ ow = <<>>
    /\ env = <<>>
    /\ vd = <<>>
    /\ hb = <<>>

\* vanitySecretKey := add(startSecretKey, offset)
KeyAdd ==
    /\ key # <<>>
    /\ key.pc = "add"
    /\ key' = [key EXCEPT !.pc = "public", !.vsk = Add(key.sk, key.offset)]
    /\ UNCHANGED <<searchVars, parVars, pm, ow, env, vd, hb>>

\* vanityPublicKey := publicKeyFor(vanitySecretKey)
KeyPublic ==
    /\ key # <<>>
    /\ key.pc = "public"
    /\ key' = [key EXCEPT !.pc = "done", !.vpk = PublicKeyFor(key.vsk)]
    /\ UNCHANGED <<searchVars, parVars, pm, ow, env, vd, hb>>

NextKeys == KeyAdd \/ KeyPublic

SpecKeys == InitKeys /\ [][NextKeys]_vars

\* ------------------------------------------ parallel and searchServiceKey
\* the batch size parallel passes to search (4096 in the source)
ParBatchSize == 2

\* (mutant) a compare-and-swap that swaps whatever the slot holds
CasAlways(old) == TRUE

\* result.CompareAndSwap(nil, offset) swaps iff the slot holds nil
CasSucceeds(old) == old = NilPtr

\* (mutant) the accumulator overwritten by the last count
AttemptsStore(total, attempts) == attempts

\* attemptsTotal.Add(attempts)
AttemptsAdd(total, attempts) == total + attempts

\* startSecretKey of searchServiceKey when --from is absent (rand.Read)
ParSecretKeys == {5, 248, 300, 517}

\* the secret keys whose public keys are given to --from, and to which the
\* offset found is applied afterwards
HeldSecretKeys == {336}

\* startPublicKey of searchServiceKey when --from is given: the public key
\* of a held secret key, or the encoding of the neutral element
ParFromKeys == {1} \cup {PublicKeyFor(sk) : sk \in HeldSecretKeys}

\* the 32 bytes a key of KeyBits bits stands for: its low 8 bits are the
\* first byte, its top two bits are bits 6 and 7 of the last byte
KeyBytes(k) ==
    [i \in 1..32 |-> IF i = 1 THEN k % 256
                     ELSE IF i = 32 THEN (k \div 256) * 64
                     ELSE 0]

\* no --offset run has been made
NoApply == [mode |-> "none", vanitySecretKey |-> <<>>, vanityPublicKey |-> <<>>,
            hostname |-> <<>>]

NoExit == <<>>

InitPar ==
    /\ \E sk \in {<<k>> : k \in ParSecretKeys} \cup {<<>>} :
         /\ cli = [startSecretKey |-> sk, exit |-> NoExit,
                   vanitySecretKey |-> <<>>, vanityPublicKey |-> <<>>,
                   hostname |-> <<>>, offsetText |-> <<>>, apply |-> NoApply]
         /\ IF sk = <<>> THEN startPublicKey \in ParFromKeys
                         ELSE startPublicKey = PublicKeyFor(sk[1])
    /\ test \in TestFns
    /\ frame = [w \in Workers |-> NewFrame("idle", NilPtr, 0)]
    /\ parentDone = FALSE
    /\ cancelCalled = FALSE
    /\ result = NilPtr
    /\ vanityPublicKey = <<>>
    /\ attemptsTotal = 0
    /\ parPc = "go"
    /\ parRet = <<>>
    /\ casWins = <<>>
    /\ key = <<>>
    /\ pm = <<>>
    /\ ow = <<>>
    /\ env = <<>>
    /\ vd = <<>>
    /\ hb = <<>>

\* main.go 297-298: the loop starts the next goroutine
ParGo ==
    /\ parPc = "go"
    /\ LET idle == {w \in Workers : frame[w].pc = "idle"}
           w == CHOOSE v \in idle : \A u \in idle : v <= u
       IN  /\ idle # {}
           /\ frame' = [frame EXCEPT ![w].pc = "go"]
           /\ parPc' = IF idle = {w} THEN "wait" ELSE "go"
    /\ UNCHANGED <<startPublicKey, test, parentDone, cancelCalled, result,
                   vanityPublicKey, attemptsTotal, parRet, casWins, cli, pureVars>>

\* main.go 299-300: the goroutine draws its startOffset and calls search
WorkerStart(w) ==
    /\ frame[w].pc = "go"
    /\ \E off \in 0..MaxStartOffset :
         frame' = [frame EXCEPT ![w] = NewFrame("enter", <<off>>, ParBatchSize)]
    /\ UNCHANGED <<startPublicKey, test, parentDone, cancelCalled, parVars, pureVars>>

\* main.go 301: yield's result.CompareAndSwap(nil, offset)
YieldCAS(w) ==
    /\ frame[w].pc = "yield"
    /\ LET f == frame[w]
           g == [f EXCEPT !.yields = Append(f.yields, f.yarg)]
       IN  IF CasSucceeds(result)
           THEN /\ result' = <<f.yarg[2]>>
                /\ casWins' = Append(casWins, f.yarg)
                /\ frame' = [frame EXCEPT ![w] = [g EXCEPT !.pc = "store"]]
           ELSE /\ frame' = [frame EXCEPT ![w] = Advance(g)]
                /\ UNCHANGED <<result, casWins>>
    /\ UNCHANGED <<startPublicKey, test, parentDone, cancelCalled, vanityPublicKey,
                   attemptsTotal, parPc, parRet, cli, pureVars>>

\* (mutant) pk is what some worker's buffer yb holds at the time of the write
YieldStoreAnyBuffer(w) ==
    /\ frame[w].pc = "store"
    /\ \E v \in Workers : vanityPublicKey' = <<frame[v].yb>>
    /\ frame' = [frame EXCEPT ![w].pc = "cancel"]
    /\ UNCHANGED <<startPublicKey, test, parentDone, cancelCalled, result,
                   attemptsTotal, parPc, parRet, casWins, cli, pureVars>>

\* main.go 302: vanityPublicKey = pk
YieldStore(w) ==
    /\ frame[w].pc = "store"
    /\ vanityPublicKey' = <<frame[w].yarg[1]>>
    /\ frame' = [frame EXCEPT ![w].pc = "cancel"]
    /\ UNCHANGED <<startPublicKey, test, parentDone, cancelCalled, result,
                   attemptsTotal, parPc, parRet, casWins, cli, pureVars>>

\* main.go 303: cancel(), and yield returns
YieldCancel(w) ==
    /\ frame[w].pc = "cancel"
    /\ cancelCalled' = TRUE
    /\ frame' = [frame EXCEPT ![w] = Advance(frame[w])]
    /\ UNCHANGED <<startPublicKey, test, parentDone, parVars, pureVars>>

\* main.go 306: attemptsTotal.Add(attempts), and the goroutine ends
WorkerAdd(w) ==
    /\ frame[w].pc = "returned"
    /\ attemptsTotal' = AttemptsAdd(attemptsTotal, frame[w].ret)
    /\ frame' = [frame EXCEPT ![w].pc = "done"]
    /\ UNCHANGED <<startPublicKey, test, parentDone, cancelCalled, result,
                   vanityPublicKey, parPc, parRet, casWins, cli, pureVars>>

\* (mutant) the three values are loaded without waiting for the goroutines
ParReturnNoWait ==
    /\ parPc = "wait"
    /\ parRet' = <<result, vanityPublicKey, attemptsTotal>>
    /\ cancelCalled' = TRUE
    /\ parPc' = "returned"
    /\ UNCHANGED <<startPublicKey, test, frame, parentDone, result,
                   vanityPublicKey, attemptsTotal, casWins, cli, pureVars>>

\* main.go 309-311: wg.Wait() is over, the three values are loaded and, on
\* the way out, the deferred cancel() runs
ParReturn ==
    /\ parPc = "wait"
    /\ \A w \in Workers : frame[w].pc = "done"
    /\ parRet' = <<result, vanityPublicKey, attemptsTotal>>
    /\ cancelCalled' = TRUE
    /\ parPc' = "returned"
    /\ UNCHANGED <<startPublicKey, test, frame, parentDone, result,
                   vanityPublicKey, attemptsTotal, casWins, cli, pureVars>>

\* main.go 234-259: what searchServiceKey does with parallel's values. With
\* a start secret key the public key is made again by add and publicKeyFor;
\* longestMatching panics, which ends the process with status 2, when the
\* address of that key has none of the prefixes
CliExit ==
    /\ parPc = "returned"
    /\ parPc' = "exited"
    /\ IF parRet[1] = NilPtr
       THEN cli' = [cli EXCEPT !.exit = <<2>>]
       ELSE IF cli.startSecretKey = <<>>
       THEN \E hostname \in {EncodeOnionAddress(KeyBytes(parRet[2][1]))} :
            \E text \in {OffsetText(parRet[1][1])} :
              cli' = [cli EXCEPT !.vanityPublicKey = parRet[2],
                                 !.hostname = hostname,
                                 !.offsetText = text,
                                 !.exit = <<0>>]
       ELSE \E vsk \in {Add(cli.startSecretKey[1], parRet[1][1])} :
            \E vpk \in {PublicKeyFor(vsk)} :
            \E hostname \in {EncodeOnionAddress(KeyBytes(vpk))} :
              cli' = [cli EXCEPT !.vanitySecretKey = <<vsk>>,
                                 !.vanityPublicKey = <<vpk>>,
                                 !.hostname = hostname,
                                 !.exit = IF Test(test, vpk) THEN <<0>> ELSE <<2>>]
    /\ UNCHANGED <<searchVars, result, vanityPublicKey, attemptsTotal, parRet,
                   casWins, pureVars>>

\* main.go 124-137, 166-175: a later run with --offset and the text the
\* --from search printed, on the secret key whose public key was given to
\* --from: main decodes the flag, offsetServiceKey adds and prints
OffsetApply ==
    /\ parPc = "exited"
    /\ cli.startSecretKey = <<>>
    /\ cli.exit = <<0>>
    /\ cli.apply = NoApply
    /\ \E sk \in HeldSecretKeys :
         /\ PublicKeyFor(sk) = startPublicKey
         /\ \E flag \in {OffsetFlag(cli.offsetText)} :
              IF flag.mode # "offset"
              THEN cli' = [cli EXCEPT !.apply = [NoApply EXCEPT !.mode = flag.mode]]
              ELSE \E vsk \in {Add(sk, flag.offset[1])} :
                   \E vpk \in {PublicKeyFor(vsk)} :
                   \E hostname \in {EncodeOnionAddress(KeyBytes(vpk))} :
                     cli' = [cli EXCEPT !.apply =
                                [mode |-> "offset", vanitySecretKey |-> <<vsk>>,
                                 vanityPublicKey |-> <<vpk>>,
                                 hostname |-> hostname]]
    /\ UNCHANGED <<searchVars, result, vanityPublicKey, attemptsTotal, parPc, parRet,
                   casWins, pureVars>>

WorkerStep(w) ==
    \/ WorkerStart(w)
    \/ SearchEnter(w)
    \/ SearchReturn(w)
    \/ SearchBatch(w)
    \/ SearchExamine(w)
    \/ YieldCAS(w)
    \/ YieldStore(w)
    \/ YieldCancel(w)
    \/ WorkerAdd(w)

Coordinator == ParGo \/ ParReturn \/ CliExit

NextPar ==
    \/ \E w \in Workers : WorkerStep(w)
    \/ Coordinator
    \/ ParentCancel
    \/ OffsetApply

SpecPar == InitPar /\ [][NextPar]_vars

\* the goroutines and the main goroutine are scheduled fairly; the timeout
\* and the signals need not come
SpecParFair ==
    /\ SpecPar
    /\ \A w \in Workers : WF_vars(WorkerStep(w))
    /\ WF_vars(Coordinator)

\* ------------------------------------------ the prefixes and their predicate
MaxPrefixLen == 52

\* the characters the prefixes are made of; "A" is outside the onion alphabet
PrefixChars == {"a", "b", "q", "7", "A"}

PrefixArgs ==
    {Repeat(c, n) : c \in PrefixChars, n \in 0..MaxPrefixLen}
        \cup {Repeat("a", n) \o <<"A">> : n \in {1, 7, 48}}

ShortPrefixArgs ==
    {Repeat(c, n) : c \in {"a", "7"}, n \in {1, 3, 8, 49}} \cup {<<"A">>}

PrefixLists ==
    {<<>>} \cup {<<a>> : a \in PrefixArgs}
           \cup {<<a, b>> : a \in ShortPrefixArgs, b \in ShortPrefixArgs}

\* public keys whose address is m times one character, then another
MixPoints == {0, 1, 2, 3, 7, 8, 9, 15, 16, 17, 47, 48, 49, 50, 51, 52}
MixChars == {<<"a", "b">>, <<"a", "q">>, <<"b", "q">>, <<"q", "7">>, <<"7", "a">>}
PublicKeyOf(chars) ==
    SubSeq(Base32Decode(onionBase32EncodingCharset, chars)[2], 1, 32)
PublicKeys ==
    {PublicKeyOf(Repeat(ce[1], m) \o Repeat(ce[2], 56 - m)) : ce \in MixChars, m \in MixPoints}

InitPrefix ==
    /\ \E prefixes \in PrefixLists, client \in BOOLEAN :
         pm = [pc |-> "args", client |-> client, prefixes |-> prefixes,
               match |-> Failed("none"), decoded |-> <<>>,
               p |-> <<>>, verdict |-> FALSE, address |-> <<>>,
               longest |-> [status |-> "none", value |-> <<>>]]
    /\ key = <<>>
    /\ ow = <<>>
    /\ env = <<>>
    /\ vd = <<>>
    /\ hb = <<>>
    /\ SearchIdle
    /\ ParIdle

\* test, err := matchAnyOf(prefixes, match)
PrefixMatchAnyOf ==
    /\ pm # <<>>
    /\ pm.pc = "args"
    /\ LET m == MatchAnyOf(pm.prefixes, pm.client)
       IN  pm' = [pm EXCEPT !.match = m,
                            !.decoded = DecodeCalls(pm.prefixes, pm.client),
                            !.pc = IF m.status = "ok" THEN "test" ELSE m.status]
    /\ UNCHANGED <<searchVars, parVars, key, ow, env, vd, hb>>

\* test(p) on a public key, and the text the prefixes are prefixes of: the
\* onion address, or with --client the encoded public key (main.go 199, 241)
PrefixTest ==
    /\ pm # <<>>
    /\ pm.pc = "test"
    /\ \E p \in PublicKeys :
         pm' = [pm EXCEPT !.pc = "tested", !.p = p,
                          !.verdict = MatchTrue(pm.match.pred, p),
                          !.address = IF pm.client
                                       THEN Base32Encode(clientBase32EncodingCharset, p)
                                       ELSE EncodeOnionAddress(p)]
    /\ UNCHANGED <<searchVars, parVars, key, ow, env, vd, hb>>

\* prefix := longestMatching(prefixes, address), on the address of the key
\* parallel returned or of the key made again from the secret key
PrefixLongest ==
    /\ pm # <<>>
    /\ pm.pc = "tested"
    /\ pm' = [pm EXCEPT !.pc = "reported",
                        !.longest = LongestMatching(pm.prefixes, pm.address)]
    /\ UNCHANGED <<searchVars, parVars, key, ow, env, vd, hb>>

NextPrefix == PrefixMatchAnyOf \/ PrefixTest \/ PrefixLongest

SpecPrefix == InitPrefix /\ [][NextPrefix]_vars

\* ------------------------------------ the offset printed and read back
MaxWireOffset == 600

\* the offsets found: every small one, and some of three and four bytes
WireOffsets ==
    0..MaxWireOffset \cup {2^16 - 1, 2^16, 2^16 + 1, 2^24 - 1, 2^24, 2^24 + 258, 2^30 + 2^16}

InitOffset ==
    /\ \E found \in WireOffsets :
         ow = [pc |-> "found", found |-> found, text |-> <<>>,
               flag |-> [mode |-> "none", offset |-> NilPtr]]
    /\ env = <<>>
    /\ vd = <<>>
    /\ hb = <<>>
    /\ key = <<>>
    /\ pm = <<>>
    /\ SearchIdle
    /\ ParIdle

\* main.go 253: fmt.Printf("offset: %s\n", base64...EncodeToString(found.Bytes()))
OffsetPrint ==
    /\ ow # <<>>
    /\ ow.pc = "found"
    /\ ow' = [ow EXCEPT !.pc = "printed", !.text = OffsetText(ow.found)]
    /\ UNCHANGED <<searchVars, parVars, key, pm, env, vd, hb>>

\* main.go 124-130: the printed text is given back as --offset
OffsetRead ==
    /\ ow # <<>>
    /\ ow.pc = "printed"
    /\ ow' = [ow EXCEPT !.pc = "read", !.flag = OffsetFlag(ow.text)]
    /\ UNCHANGED <<searchVars, parVars, key, pm, env, vd, hb>>

NextOffset == OffsetPrint \/ OffsetRead

SpecOffset == InitOffset /\ [][NextOffset]_vars

\* ------------------------------------ key envelopes written and read
MaxPayload == 70

\* 32-byte secret keys: every value of the bits that clamping touches, the
\* bytes between the first and the last all 0 or all 255
EnvelopeSecretKeys ==
    {[i \in 1..32 |-> IF i \in {1, 32} THEN KeyBytes(k)[i] ELSE fill] :
        k \in {low + 256 * top : low \in 0..8 \cup 247..255, top \in 0..3},
        fill \in {0, 255}}

\* what a key file may start with: the two prefixes, no prefix, a prefix cut
\* short, a prefix with one byte changed
GivenPrefixes ==
    {secretKeyFilePrefix, publicKeyFilePrefix, <<>>,
     SubSeq(secretKeyFilePrefix, 1, 31), SubSeq(publicKeyFilePrefix, 1, 31),
     [secretKeyFilePrefix EXCEPT ![32] = 1], [publicKeyFilePrefix EXCEPT ![14] = 115]}

Payload(n) == [i \in 1..n |-> 1 + ((7 * i) % 255)]

NoKey == [err |-> "none", key |-> <<>>]

InitEnvelope ==
    /\ \/ \E sk \in EnvelopeSecretKeys :
            env = [pc |-> "key", kind |-> "secret", sk |-> sk, file |-> <<>>,
                   text |-> <<>>, parsed |-> NoKey, read |-> NoKey]
       \/ \E kind \in {"secret", "public"}, prefix \in GivenPrefixes,
             n \in 0..MaxPayload, newline \in BOOLEAN :
            LET file == prefix \o Payload(n)
            IN  env = [pc |-> "given", kind |-> kind, sk |-> <<>>, file |-> file,
                       text |-> Base64Encode(file)
                                    \o (IF newline THEN <<"\n">> ELSE <<>>),
                       parsed |-> NoKey, read |-> NoKey]
    /\ vd = <<>>
    /\ hb = <<>>
    /\ key = <<>>
    /\ pm = <<>>
    /\ ow = <<>>
    /\ SearchIdle
    /\ ParIdle

\* main.go 174, 251: encodeServiceSecretKey(vanitySecretKey) is printed
EnvelopeWrite ==
    /\ env # <<>>
    /\ env.pc = "key"
    /\ env' = [env EXCEPT !.pc = "written",
                          !.file = SerializeServiceSecretKey(env.sk),
                          !.text = EncodeServiceSecretKey(env.sk)]
    /\ UNCHANGED <<searchVars, parVars, key, pm, ow, vd, hb>>

\* the file is parsed (parseServiceSecretKey, parseServicePublicKey) and its
\* base64 text is read (main.go 167 readServiceSecretKey(os.Stdin), main.go
\* 222 decodeServicePublicKey(from))
EnvelopeRead ==
    /\ env # <<>>
    /\ env.pc \in {"written", "given"}
    /\ env' = [env EXCEPT
                 !.pc = IF env.pc = "written" THEN "readback" ELSE "read",
                 !.parsed = IF env.kind = "secret" THEN ParseServiceSecretKey(env.file)
                            ELSE ParseServicePublicKey(env.file),
                 !.read = IF env.kind = "secret" THEN ReadServiceSecretKey(env.text)
                          ELSE DecodeServicePublicKey(env.text)]
    /\ UNCHANGED <<searchVars, parVars, key, pm, ow, vd, hb>>

NextEnvelope == EnvelopeWrite \/ EnvelopeRead

SpecEnvelope == InitEnvelope /\ [][NextEnvelope]_vars

\* ------------------------------------------ one call of vectorDivision
MaxVecLen == 3

\* the field elements the arrays hold
VecNumerators == {0, 1, 3}
VecDenominators == {0, 2, FieldP - 1}

\* u is an array of its own, or the array x, or the array y
VecAliases == {"none", "x", "y"}

InitDivision ==
    /\ \E n \in 1..MaxVecLen, alias \in VecAliases :
       \E x \in [1..n -> VecNumerators], y \in [1..n -> VecDenominators] :
         vd = [pc |-> "call", n |-> n, alias |-> alias,
               x |-> x, y |-> y,
               u |-> IF alias = "x" THEN x ELSE IF alias = "y" THEN y ELSE Zeros(n),
               py |-> 0, pyInv |-> 0, i |-> 0,
               x0 |-> x, y0 |-> y]
    /\ key = <<>>
    /\ pm = <<>>
    /\ ow = <<>>
    /\ env = <<>>
    /\ hb = <<>>
    /\ SearchIdle
    /\ ParIdle

\* (mutant) a write to u[i] that lands in u[i-1] for i > 0
VecStoreOneBelow(v, i, val) ==
    LET k == IF i > 0 THEN i ELSE i + 1
    IN  [v EXCEPT !.u = [v.u EXCEPT ![k] = val],
                  !.x = IF v.alias = "x" THEN [v.x EXCEPT ![k] = val] ELSE v.x,
                  !.y = IF v.alias = "y" THEN [v.y EXCEPT ![k] = val] ELSE v.y]

\* u[i] is written (index i + 1 here): the write is to x[i] or y[i] as well
\* when u is that array
VecStore(v, i, val) ==
    [v EXCEPT !.u = [v.u EXCEPT ![i + 1] = val],
              !.x = IF v.alias = "x" THEN [v.x EXCEPT ![i + 1] = val] ELSE v.x,
              !.y = IF v.alias = "y" THEN [v.y EXCEPT ![i + 1] = val] ELSE v.y]

\* lines 287-288: n := len(x); py := y[0]; i := 1
VecEnter ==
    /\ vd # <<>>
    /\ vd.pc = "call"
    /\ vd' = [vd EXCEPT !.pc = "forward", !.py = vd.y[1], !.i = 1]
    /\ UNCHANGED <<searchVars, parVars, key, pm, ow, env, hb>>

\* lines 289-292, one round: u[i] = py * x[i]; py = py * y[i]
VecForward ==
    /\ vd # <<>>
    /\ vd.pc = "forward"
    /\ vd.i < vd.n
    /\ \E w \in {VecStore(vd, vd.i, FMul(vd.py, vd.x[vd.i + 1]))} :
         vd' = [w EXCEPT !.py = FMul(vd.py, w.y[vd.i + 1]), !.i = vd.i + 1]
    /\ UNCHANGED <<searchVars, parVars, key, pm, ow, env, hb>>

\* line 294: pyInv := Invert(py); i := n - 1
VecInvert ==
    /\ vd # <<>>
    /\ vd.pc = "forward"
    /\ vd.i >= vd.n
    /\ vd' = [vd EXCEPT !.pc = "backward", !.pyInv = FInvert(vd.py), !.i = vd.n - 1]
    /\ UNCHANGED <<searchVars, parVars, key, pm, ow, env, hb>>

\* lines 296-299, one round: u[i] = pyInv * u[i]; pyInv = pyInv * y[i]
VecBackward ==
    /\ vd # <<>>
    /\ vd.pc = "backward"
    /\ vd.i > 0
    /\ \E w \in {VecStore(vd, vd.i, FMul(vd.pyInv, vd.u[vd.i + 1]))} :
         vd' = [w EXCEPT !.pyInv = FMul(vd.pyInv, w.y[vd.i + 1]), !.i = vd.i - 1]
    /\ UNCHANGED <<searchVars, parVars, key, pm, ow, env, hb>>

\* line 300: u[0] = pyInv * x[0]
VecLast ==
    /\ vd # <<>>
    /\ vd.pc = "backward"
    /\ vd.i <= 0
    /\ vd' = [VecStore(vd, 0, FMul(vd.pyInv, vd.x[1])) EXCEPT !.pc = "done"]
    /\ UNCHANGED <<searchVars, parVars, key, pm, ow, env, hb>>

NextDivision == VecEnter \/ VecForward \/ VecInvert \/ VecBackward \/ VecLast

SpecDivision == InitDivision /\ [][NextDivision]_vars

\* --------------------------------------------- hasPrefixBits on its own
MaxBitsLen == 2

\* the bytes of the prefixes and of the inputs: two that differ in their last
\* bit only, two that differ in their first bit only
BitsBytes == {0, 37, 164, 165}

BitsSeqs(n) == UNION {[1..m -> BitsBytes] : m \in 0..n}

\* the prefixes hasPrefixBits is given: short ones, and one of 33 bytes
BitsPrefixes == BitsSeqs(MaxBitsLen) \cup {[k \in 1..33 |-> 0]}

BitsCounts == 0..(8 * MaxBitsLen + 1)

InitBits ==
    /\ \E prefix \in BitsPrefixes, bits \in BitsCounts :
         hb = [pc |-> "args", prefix |-> prefix, bits |-> bits,
               ret |-> Failed("none"), b |-> <<>>, verdict |-> FALSE]
    /\ key = <<>>
    /\ pm = <<>>
    /\ ow = <<>>
    /\ env = <<>>
    /\ vd = <<>>
    /\ SearchIdle
    /\ ParIdle

\* hasPrefixBits(prefix, bits)
BitsCall ==
    /\ hb # <<>>
    /\ hb.pc = "args"
    /\ \E ret \in {HasPrefixBits(hb.prefix, hb.bits)} :
         hb' = [hb EXCEPT !.ret = ret,
                          !.pc = IF ret.status = "ok" THEN "closure" ELSE ret.status]
    /\ UNCHANGED <<searchVars, parVars, key, pm, ow, env, vd>>

\* the closure hasPrefixBits returned, applied to b
BitsTest ==
    /\ hb # <<>>
    /\ hb.pc = "closure"
    /\ \E b \in BitsSeqs(MaxBitsLen) :
         hb' = [hb EXCEPT !.pc = "tested", !.b = b,
                          !.verdict = PredTrue(hb.ret.pred, b)]
    /\ UNCHANGED <<searchVars, parVars, key, pm, ow, env, vd>>

NextBits == BitsCall \/ BitsTest

SpecBits == InitBits /\ [][NextBits]_vars

\* ------------------------------------------------------------------ claims
\* the candidate the claims expect for an offset: the encoding, sign bit
\* cleared, of the y coordinate of startPublicKey + offset * _B8
ExpectedCandidate(pk, offset) ==
    PointBytes(PointAdd(PointSetBytes(pk)[2], PointMul(offset, B8))) % SignBit

\* C1 (search soundness): every yield(pk, offset) made by search, for a
\* candidate of the positive half, of the negative half or for the centre, in
\* any batch, passes the sign-cleared y encoding of startPublicKey + offset*_B8.
C1_EveryYieldIsThePointAtItsOffset ==
    \A k \in 1..Len(frame[1].yields) :
        frame[1].yields[k][1] = ExpectedCandidate(startPublicKey, frame[1].yields[k][2])

\* C2 (secret-key reconstruction): for every secret key and offset,
\* publicKeyFor(add(start_sk, offset)) with the sign bit cleared is the
\* candidate search yields for that offset from publicKeyFor(start_sk): the
\* sign-cleared y encoding of publicKeyFor(start_sk) + offset * _B8.
C2_AddReconstructsTheYieldedKey ==
    (key # <<>> /\ key.pc = "done") =>
        key.vpk % SignBit = ExpectedCandidate(PublicKeyFor(key.sk), key.offset)

\* the arguments the claim C10 lists as invalid, stated on the arguments alone
OnCurve(x, yv) ==
    (FMul(yv, yv) + FieldP - FMul(x, x)) % FieldP
        = (1 + FMul(CurveD, FMul(FMul(x, x), FMul(yv, yv)))) % FieldP
DecodesToCurvePoint(b) == \E x \in 0..(FieldP - 1) : OnCurve(x, (b % SignBit) % FieldP)
ArgumentsInvalid(f) ==
    \/ f.startOffset = NilPtr
    \/ f.startOffset[1] < 0
    \/ f.batchSize <= 0
    \/ f.batchSize % 2 = 1
    \/ ~DecodesToCurvePoint(startPublicKey)

\* C7 (attempt accounting in search): accept is called once per candidate,
\* batchSize + 1 times per batch, and search returns the number of accept
\* calls it made: k * (batchSize + 1) after k batches.
C7_ReturnCountsAcceptCalls ==
    LET f == frame[1]
        perBatch == f.batchSize + 1
    IN  /\ f.pc = "poll" => f.acceptCalls = f.batches * perBatch
        /\ f.pc = "examine" => f.acceptCalls = (f.batches - 1) * perBatch + f.j
        /\ f.pc = "yield" => f.acceptCalls = (f.batches - 1) * perBatch + f.j + 1
        /\ f.pc = "returned" => /\ f.ret = f.acceptCalls
                                /\ f.ret = f.batches * perBatch

C7_Witness ==
    /\ frame[1].pc = "returned"
    /\ frame[1].batches = 2
    /\ frame[1].batchSize = 4
    /\ frame[1].ret = 10
    /\ Len(frame[1].yields) > 0

\* C10 (validation only at initialization): with batchSize <= 0 or odd, with
\* startOffset nil or negative, or with a startPublicKey that decodes to no
\* curve point, search panics before its loop: accept and yield are never
\* called and no batch is begun.
C10_InvalidArgumentsFailBeforeTheLoop ==
    ArgumentsInvalid(frame[1]) =>
        /\ frame[1].pc \in {"enter", "panic"}
        /\ frame[1].acceptCalls = 0
        /\ frame[1].batches = 0
        /\ frame[1].yields = <<>>
        /\ frame[1].yarg = <<>>

C10_Witness ==
    /\ frame[1].pc = "panic"
    /\ ~DecodesToCurvePoint(startPublicKey)
    /\ frame[1].batchSize = 4
    /\ frame[1].startOffset = <<1>>

\* a prefix the specification allows: not empty, of the onion alphabet, and
\* no longer than the characters the 256 bits of a public key fill
ValidPrefix(prefix) ==
    /\ Len(prefix) > 0
    /\ 5 * Len(prefix) <= 256
    /\ \A k \in 1..Len(prefix) : InCharset(onionBase32EncodingCharset, prefix[k])

ValidPrefixes(prefixes) ==
    /\ Len(prefixes) > 0
    /\ \A k \in 1..Len(prefixes) : ValidPrefix(prefixes[k])

AddressStartsWithAny(address, prefixes) ==
    \E k \in 1..Len(prefixes) : HasPrefixSeq(address, prefixes[k])

\* C3 (where matchAnyOf returns): the predicate matchAnyOf returned is true
\* for a public key iff the key's onion address starts with one of the prefixes
PredicateAgreesWithAddress ==
    (pm # <<>> /\ pm.pc \in {"tested", "reported"})
        => (pm.verdict <=> AddressStartsWithAny(pm.address, pm.prefixes))

\* C3: for every non-empty list of valid prefixes matchAnyOf returns a
\* predicate, and the predicate is true for a public key iff the key's onion
\* address starts with at least one of the prefixes
C3_PredicateTrueIffAddressHasAPrefix ==
    (pm # <<>> /\ pm.pc # "args" /\ ~pm.client /\ ValidPrefixes(pm.prefixes))
        => /\ pm.match.status = "ok"
           /\ pm.pc = "tested"
                => (pm.verdict <=> AddressStartsWithAny(pm.address, pm.prefixes))

\* C4: addressMatch returns a predicate, neither an error nor a panic, for
\* every non-empty prefix of the onion alphabet of at most 51 characters
C4_EveryValidPrefixIsAccepted ==
    (pm # <<>> /\ pm.pc # "args" /\ ~pm.client
        /\ Len(pm.prefixes) = 1 /\ ValidPrefix(pm.prefixes[1]))
        => AddressMatch(pm.prefixes[1]).status = "ok"

\* parallel has returned its three values
ParReturned == parRet # <<>>

\* C5: the result slot is written at most once, by a compare-and-swap from
\* nil, and the offset and the public key parallel returns are the pair of
\* the one yield call whose compare-and-swap succeeded
C5_FirstDiscoveryWins ==
    /\ Len(casWins) <= 1
    /\ result # NilPtr => (Len(casWins) = 1 /\ result = <<casWins[1][2]>>)
    /\ (ParReturned /\ casWins # <<>>)
          => (parRet[1] = <<casWins[1][2]>> /\ parRet[2] = <<casWins[1][1]>>)

\* parallel returned a pair although another yield call, with another pair,
\* was made
C5_Witness ==
    /\ ParReturned
    /\ Len(casWins) = 1
    /\ \E w \in Workers : \E k \in 1..Len(frame[w].yields) :
         /\ frame[w].yields[k][1] # casWins[1][1]
         /\ frame[w].yields[k][2] # casWins[1][2]

\* cancellation has been signalled: by a worker's discovery or parallel's own
\* cancel(), or by the timeout or a signal
Signalled == cancelCalled \/ parentDone

\* C6: once cancellation is signalled every worker returns from search and
\* parallel returns, and from the signal on no worker starts a new batch
C6_CancellationEndsTheSearch ==
    /\ Signalled ~> (ParReturned /\ \A w \in Workers : frame[w].pc = "done")
    /\ [][Signalled => \A w \in Workers : frame'[w].batches = frame[w].batches]_vars

\* parallel returned after a timeout or a signal that found both workers at work
C6_Witness ==
    /\ ParReturned
    /\ parentDone
    /\ result = NilPtr
    /\ \A w \in Workers : frame[w].batches >= 1 /\ frame[w].pc = "done"

\* C8: parallel returns only after every worker has returned, and the count
\* it returns is the sum of the values the workers' search calls returned
C8_AttemptsAreSummed ==
    ParReturned =>
        /\ \A w \in Workers : frame[w].pc = "done"
        /\ parRet[3] = frame[1].ret + frame[2].ret

C8_Witness ==
    /\ ParReturned
    /\ frame[1].ret > 0
    /\ frame[2].ret > frame[1].ret

\* some worker's accept has returned true
SomeAccepted == \E w \in Workers : frame[w].yields # <<>> \/ frame[w].yarg # <<>>

\* C9: parallel returns a non-null offset iff some accept returned true;
\* with none it returns a null offset and a null public key and the process
\* exits with status 2; with a found result the process exits with status 0
C9_FoundExitsZeroElseTwo ==
    /\ ParReturned => (parRet[1] # NilPtr <=> SomeAccepted)
    /\ (ParReturned /\ parRet[1] = NilPtr) => parRet[2] = <<>>
    /\ (parPc = "exited" /\ parRet[1] = NilPtr) => cli.exit = <<2>>
    /\ (parPc = "exited" /\ parRet[1] # NilPtr) => cli.exit = <<0>>

\* C9 without the exit status of a found result
FoundIffAccepted ==
    /\ ParReturned => (parRet[1] # NilPtr <=> SomeAccepted)
    /\ (ParReturned /\ parRet[1] = NilPtr) => parRet[2] = <<>>
    /\ (parPc = "exited" /\ parRet[1] = NilPtr) => cli.exit = <<2>>

\* the alphabet of the mode
ModeCharset(client) ==
    IF client THEN clientBase32EncodingCharset ELSE onionBase32EncodingCharset

\* a prefix validation rejects: empty, or with a character outside the alphabet
InvalidPrefix(prefix, client) ==
    \/ Len(prefix) = 0
    \/ \E k \in 1..Len(prefix) : ~InCharset(ModeCharset(client), prefix[k])

\* C11: addressMatch and clientMatch return an error and no predicate for an
\* empty prefix and for a prefix with a character outside the alphabet;
\* matchAnyOf returns an error for an empty list and whenever one of the
\* prefixes is invalid
C11_InvalidPrefixesAreErrors ==
    (pm # <<>> /\ pm.pc # "args")
        => /\ Len(pm.prefixes) = 0 => pm.match.status = "error"
           /\ (\E k \in 1..Len(pm.prefixes) : InvalidPrefix(pm.prefixes[k], pm.client))
                => (pm.match.status = "error" /\ pm.match.pred = NoPred)

\* C11 for the lists whose prefixes before the first invalid one have at most
\* 48 characters
InvalidPrefixesAreErrorsUnlessPanic ==
    (pm # <<>> /\ pm.pc # "args")
        => /\ Len(pm.prefixes) = 0 => pm.match.status = "error"
           /\ (\E k \in 1..Len(pm.prefixes) : InvalidPrefix(pm.prefixes[k], pm.client))
                => (pm.match.status \in {"error", "panic"} /\ pm.match.pred = NoPred)
           /\ (Len(pm.prefixes) = 1 /\ InvalidPrefix(pm.prefixes[1], pm.client))
                => pm.match.status = "error"

\* the supplied prefixes that are prefixes of the reported text
MatchingPrefixes == {k \in 1..Len(pm.prefixes) : HasPrefixSeq(pm.address, pm.prefixes[k])}

\* C12: longestMatching returns a supplied prefix that is a prefix of the
\* value and at least as long as every supplied prefix that is one, the first
\* of them among equally long ones, and panics only when none is
C12_LongestMatchingPrefixIsReported ==
    (pm # <<>> /\ pm.pc = "reported")
        => /\ pm.longest.status = "panic" <=> MatchingPrefixes = {}
           /\ pm.longest.status = "ok" =>
                \E k \in MatchingPrefixes :
                    /\ pm.longest.value = pm.prefixes[k]
                    /\ \A m \in MatchingPrefixes :
                         /\ Len(pm.prefixes[m]) <= Len(pm.prefixes[k])
                         /\ Len(pm.prefixes[m]) = Len(pm.prefixes[k]) => k <= m \/ pm.prefixes[m] = pm.prefixes[k]

\* two supplied prefixes match, the shorter one supplied first, and the
\* second is reported
C12_Witness ==
    /\ pm # <<>> /\ pm.pc = "reported"
    /\ MatchingPrefixes = {1, 2}
    /\ Len(pm.prefixes[1]) < Len(pm.prefixes[2])
    /\ pm.longest = [status |-> "ok", value |-> pm.prefixes[2]]

\* the value of bytes read most significant byte first
RECURSIVE BigEndianValue(_)
BigEndianValue(b) ==
    IF Len(b) = 0 THEN 0 ELSE b[Len(b)] + 256 * BigEndianValue(SubSeq(b, 1, Len(b) - 1))

\* the value of bytes read least significant byte first
RECURSIVE LittleEndianValue(_)
LittleEndianValue(b) ==
    IF Len(b) = 0 THEN 0 ELSE b[1] + 256 * LittleEndianValue(SubSeq(b, 2, Len(b)))

\* the bytes the printed text is the base64 encoding of
PrintedBytes == Base64Decode(ow.text)[2]

\* C13 (as stated): the offset printed by a --from search and the offset
\* read by --offset are the base64 encoding of the offset's bytes in
\* little-endian order
C13_OffsetTextIsLittleEndian ==
    (ow # <<>> /\ ow.pc # "found")
        => /\ ~Base64Decode(ow.text)[1]
           /\ Base64Encode(PrintedBytes) = ow.text
           /\ LittleEndianValue(PrintedBytes) = ow.found
           /\ (ow.pc = "read" /\ ow.flag.mode = "offset")
                => ow.flag.offset = <<LittleEndianValue(PrintedBytes)>>

\* C13 (amended): the printed and the read offset are the base64 encoding
\* (standard alphabet, padded) of the offset's bytes in big-endian order,
\* without leading zero bytes
C13_OffsetTextIsBigEndian ==
    (ow # <<>> /\ ow.pc # "found")
        => /\ ~Base64Decode(ow.text)[1]
           /\ Base64Encode(PrintedBytes) = ow.text
           /\ BigEndianValue(PrintedBytes) = ow.found
           /\ Len(PrintedBytes) > 0 => PrintedBytes[1] # 0
           /\ (ow.pc = "read" /\ ow.flag.mode = "offset")
                => ow.flag.offset = <<BigEndianValue(PrintedBytes)>>

\* an offset of several bytes that do not read the same both ways has been
\* printed and read back
C13_Witness ==
    /\ ow # <<>> /\ ow.pc = "read"
    /\ ow.flag.mode = "offset"
    /\ Len(PrintedBytes) = 4
    /\ BigEndianValue(PrintedBytes) # LittleEndianValue(PrintedBytes)

\* C14: for every offset search can yield, 0 included, the text printed
\* after "offset:" given to --offset selects offset mode and decodes to the
\* same offset
C14_PrintedOffsetReadsBack ==
    (ow # <<>> /\ ow.pc = "read")
        => (ow.flag.mode = "offset" /\ ow.flag.offset = <<ow.found>>)

\* C14 for the offsets other than 0
PositiveOffsetReadsBack ==
    (ow # <<>> /\ ow.pc = "read" /\ ow.found > 0)
        => (ow.flag.mode = "offset" /\ ow.flag.offset = <<ow.found>>)

\* a --offset run has applied the offset a --from search printed
Applied == parPc = "exited" /\ cli.apply.mode # "none"

\* C15: applying the offset a --from search reported to the secret key of
\* the --from public key outputs the public key and the hostname the search
\* reported
C15_ApplyGivesTheReportedKey ==
    Applied => /\ cli.apply.mode = "offset"
               /\ cli.apply.vanityPublicKey = cli.vanityPublicKey
               /\ cli.apply.hostname = cli.hostname

\* C15 without the sign of x and for offsets other than 0: the applied key
\* has the y coordinate the search reported
ApplyGivesTheReportedY ==
    (Applied /\ parRet[1] # <<0>>)
        => /\ cli.apply.mode = "offset"
           /\ cli.apply.vanityPublicKey[1] % SignBit = cli.vanityPublicKey[1]

\* the clamping of a 32-byte scalar
ClampedBytes(sk) ==
    [i \in 1..32 |-> IF i = 1 THEN sk[1] - (sk[1] % 8)
                     ELSE IF i = 32 THEN (sk[32] % 64) + 64
                     ELSE sk[i]]

\* C16 as stated: bytes 32..63 of the envelope written for a secret key are
\* the key unchanged, and parsing the envelope gives the key back
C16_EnvelopeStoresTheScalarVerbatim ==
    (env # <<>> /\ env.pc = "readback")
        => /\ SubSeq(env.file, 33, 64) = env.sk
           /\ env.parsed = KeyOk(env.sk)

\* C16 amended: bytes 32..63 of the envelope written for a secret key are
\* the key clamped, parsing the envelope (and reading its base64 text) gives
\* the clamped key, and the envelope is 96 bytes that start with the prefix
C16_EnvelopeStoresTheClampedScalar ==
    (env # <<>> /\ env.pc = "readback")
        => /\ Len(env.file) = secretKeyFileLength
           /\ SubSeq(env.file, 1, 32) = secretKeyFilePrefix
           /\ SubSeq(env.file, 33, 64) = ClampedBytes(env.sk)
           /\ env.parsed = KeyOk(ClampedBytes(env.sk))
           /\ env.read = env.parsed

\* an envelope written for a key that is not clamped has been read back
C16_Witness ==
    /\ env # <<>> /\ env.pc = "readback"
    /\ env.sk[1] % 8 # 0
    /\ env.sk[32] \div 64 # 1
    /\ env.sk[2] = 255
    /\ env.parsed.err = ""

\* C17: search polls the context once per batch. With the context done: a
\* call that is entered goes to its first poll with no batch begun and no
\* candidate examined; a call at its poll can only return, with the count
\* of the candidates examined so far, which is 0 for a call that began no
\* batch; a call in the middle of a batch goes on through all batchSize + 1
\* candidates of that batch, begins no other batch, and comes to the next
\* poll
C17_CancellationIsPolledOncePerBatch ==
    [][LET f == frame[1]
           g == frame'[1]
       IN  (parentDone /\ g # f) =>
             /\ f.pc = "enter"
                  => /\ g.pc \in {"poll", "panic"}
                     /\ g.acceptCalls = 0 /\ g.batches = 0
                     /\ g.pc = "poll" => g.i = g.batchSize \div 2
             /\ f.pc = "poll"
                  => /\ g.pc = "returned"
                     /\ g.acceptCalls = f.acceptCalls /\ g.batches = f.batches
                     /\ g.ret = f.acceptCalls
                     /\ f.batches = 0 => g.ret = 0
             /\ f.pc \in {"examine", "yield"}
                  => /\ g.batches = f.batches
                     /\ g.pc \in {"examine", "yield", "poll"}
                     /\ f.pc = "examine" => g.acceptCalls = f.acceptCalls + 1
                     /\ g.pc \in {"examine", "yield"}
                          => g.acceptCalls <= f.batches * (f.batchSize + 1)
                     /\ g.pc = "poll"
                          => g.acceptCalls = f.batches * (f.batchSize + 1)
             /\ f.pc \in {"returned", "panic"} => FALSE]_vars

\* the context is done and the second batch of four candidates and a centre
\* is in progress, three of its candidates examined
C17_Witness ==
    /\ parentDone
    /\ frame[1].pc = "examine"
    /\ frame[1].batchSize = 4
    /\ frame[1].batches = 2
    /\ frame[1].acceptCalls = 8

\* the context was done before search was called, and the call has returned 0
CancelledAtEntry ==
    /\ parentDone
    /\ frame[1].pc = "returned"
    /\ frame[1].batches = 0
    /\ frame[1].ret = 0

\* matchAnyOf has just returned, or failed
PrefixesDecoded == pm # <<>> /\ pm.pc \in {"test", "error", "panic"}

\* C18: for every prefix over the alphabet decodePrefixBits returns
\* bits = 5 * len(prefix) and 5 * ceil(len(prefix) / 8) bytes, whose first
\* bits bits are the prefix's characters, five bits each, and whose later
\* bits are all 0
C18_PrefixBitsAreThePrefixThenZeros ==
    PrefixesDecoded =>
        \A k \in DOMAIN pm.decoded :
            \E d \in {pm.decoded[k]}, p \in {pm.prefixes[k]}, charset \in {ModeCharset(pm.client)} :
                /\ ~d.err
                /\ d.bits = 5 * Len(p)
                /\ Len(d.buf) = 5 * ((Len(p) + 7) \div 8)
                /\ \A b \in 1..Len(d.buf) : d.buf[b] \in 0..255
                /\ \A b \in 0..(8 * Len(d.buf) - 1) :
                     ByteBit(d.buf, b) = IF b < d.bits
                                         THEN (CharValue(charset, p[b \div 5 + 1])
                                                  \div 2^(4 - (b % 5))) % 2
                                         ELSE 0

\* decodePrefixBits has decoded three characters that are not the zero
\* character into 15 bits in 5 bytes
C18_Witness ==
    /\ PrefixesDecoded
    /\ pm.prefixes = << <<"7", "7", "7">> >>
    /\ 1 \in DOMAIN pm.decoded
    /\ pm.decoded[1].bits = 15
    /\ pm.decoded[1].buf = <<255, 254, 0, 0, 0>>

\* add has returned
Added == key # <<>> /\ key.pc \in {"public", "done"}

\* C19 as stated: add returns start_sk + 8 * offset reduced modulo p, the
\* 32 bytes of start_sk read as a little-endian integer
C19_AddIsTheSumModuloP ==
    Added => key.vsk = (key.sk + 8 * key.offset) % FieldP

\* C19 amended: add returns start_sk, its most significant bit ignored, plus
\* 8 * offset, reduced modulo p and not modulo the group order; the result
\* is not clamped, and being less than p its most significant bit is 0
C19_AddIgnoresTheTopBitOfTheKey ==
    Added => /\ key.vsk = ((key.sk % SignBit) + 8 * key.offset) % FieldP
             /\ key.vsk < FieldP

\* add has returned a key that clamping would change in its low bits and in
\* its bit 254, from a start key with the most significant bit set, by a sum
\* that went past the group order and past p
C19_Witness ==
    /\ Added
    /\ key.sk >= SignBit
    /\ key.offset > 0
    /\ (key.sk % SignBit) + 8 * key.offset >= FieldP
    /\ key.vsk % 8 # 0
    /\ key.vsk < SignBit \div 2
    /\ key.vsk # ((key.sk % SignBit) + 8 * key.offset) % GroupL

\* what the claim C20 calls malformed, stated on the bytes of the file: the
\* envelope prefix is wrong, or there are not 96 bytes (secret key) or 64
\* bytes (public key)
Malformed(kind, file) ==
    IF kind = "secret"
    THEN \/ Len(file) # 96
         \/ SubSeq(file, 1, 32) # secretKeyFilePrefix
    ELSE \/ Len(file) # 64
         \/ SubSeq(file, 1, 32) # publicKeyFilePrefix

\* a file has been parsed and its base64 text has been read
FileRead == env # <<>> /\ env.pc = "read"

\* C20: reading or parsing a malformed key gives an error: the readers of
\* the base64 text (readServiceSecretKey, decodeServicePublicKey) and the
\* parsers of the bytes (parseServiceSecretKey, parseServicePublicKey) all
\* reject a file with a wrong prefix or a wrong length, too short included
C20_MalformedKeysAreRejected ==
    (FileRead /\ Malformed(env.kind, env.file))
        => /\ env.parsed.err # ""
           /\ env.read.err # ""

\* the first 96 bytes of a file, a shorter file filled up with zero bytes
FirstBytesZeroFilled(file) ==
    [i \in 1..secretKeyFileLength |-> IF i <= Len(file) THEN file[i] ELSE 0]

\* what does hold: the two parsers and decodeServicePublicKey reject every
\* malformed file and accept every other; readServiceSecretKey takes the
\* first 96 bytes of the file, filled up with zero bytes, for the file
MalformedKeysAreRejectedButByReadSecret ==
    FileRead
        => /\ env.parsed.err # "" <=> Malformed(env.kind, env.file)
           /\ env.kind = "public" => (env.read.err # "" <=> Malformed(env.kind, env.file))
           /\ env.kind = "secret"
                => env.read = ParseServiceSecretKey(FirstBytesZeroFilled(env.file))

\* C21: the counter i is batchSize/2 in the first batch and batchSize + 1
\* more in each following one; candidate j is yielded with the offset
\* startOffset + i + (j + 1) in the first half of the batch, with
\* startOffset + i - (j + 1 - batchSize/2) in the second half, and the centre
\* with startOffset + i; no yielded offset is below startOffset
C21_OffsetsWithinABatch ==
    LET f == frame[1]
        N == f.batchSize
        so == f.startOffset[1]
    IN  /\ f.pc \in {"examine", "yield"}
            => f.i = N \div 2 + (f.batches - 1) * (N + 1)
        /\ f.pc = "yield"
            => /\ f.j < N \div 2 => f.yarg[2] = so + f.i + (f.j + 1)
               /\ (N \div 2 <= f.j /\ f.j < N)
                    => f.yarg[2] = so + f.i - (f.j + 1 - N \div 2)
               /\ f.j = N => f.yarg[2] = so + f.i
               /\ f.j <= N
               /\ f.yarg[2] >= so
        /\ \A k \in 1..Len(f.yields) : f.yields[k][2] >= so

\* the last candidate of the second half of the second batch of four is
\* being yielded, after yields of the first batch
C21_Witness ==
    /\ frame[1].pc = "yield"
    /\ frame[1].batchSize = 4
    /\ frame[1].batches = 2
    /\ frame[1].j = 3
    /\ frame[1].startOffset = <<1>>
    /\ frame[1].yarg[2] = 6
    /\ Len(frame[1].yields) >= 5

\* the offsets yielded so far, and how often an offset was yielded
YieldedOffsets(f) == {f.yields[k][2] : k \in 1..Len(f.yields)}
TimesYielded(f, offset) == Cardinality({k \in 1..Len(f.yields) : f.yields[k][2] = offset})

\* C22: with an accept that is always true, the offsets one call of search
\* has yielded after k whole batches are exactly startOffset,
\* startOffset + 1, ..., startOffset + k * (batchSize + 1) - 1, each of them
\* yielded once
C22_OffsetsOfAWorkerAreContiguous ==
    LET f == frame[1]
    IN  (test = <<0, 0>> /\ f.pc \in {"poll", "returned"})
          => LET so == f.startOffset[1]
                 n == f.batches * (f.batchSize + 1)
             IN  /\ Len(f.yields) = n
                 /\ YieldedOffsets(f) = so..(so + n - 1)
                 /\ \A offset \in so..(so + n - 1) : TimesYielded(f, offset) = 1

\* two batches of four candidates and a centre have been yielded whole
C22_Witness ==
    /\ test = <<0, 0>>
    /\ frame[1].pc = "poll"
    /\ frame[1].batchSize = 4
    /\ frame[1].batches = 2
    /\ frame[1].startOffset = <<1>>
    /\ YieldedOffsets(frame[1]) = 1..10

\* vectorDivision has returned
Divided == vd # <<>> /\ vd.pc = "done"

\* no denominator is 0
NoZeroDenominator == \A k \in 1..vd.n : vd.y0[k] # 0

\* C23: for arrays of n >= 1 elements, every y[i] different from 0 and u
\* neither x nor y, vectorDivision leaves in every u[i] the element that
\* multiplied by y[i] gives x[i], and leaves x and y as they were
C23_VectorDivisionDivides ==
    (Divided /\ vd.alias = "none" /\ NoZeroDenominator)
        => /\ \A k \in 1..vd.n :
                /\ vd.u[k] \in 0..(FieldP - 1)
                /\ (vd.u[k] * vd.y0[k]) % FieldP = vd.x0[k]
           /\ vd.x = vd.x0
           /\ vd.y = vd.y0

\* three quotients that are not all the same have been computed
C23_Witness ==
    /\ Divided /\ vd.alias = "none"
    /\ vd.n = 3
    /\ vd.x0 = <<3, 1, 0>>
    /\ vd.y0 = <<2, FieldP - 1, 2>>
    /\ vd.u = <<256, FieldP - 1, 0>>

\* one quotient has been computed: the loops are not entered
DividedOne ==
    /\ Divided /\ vd.alias = "none"
    /\ vd.n = 1
    /\ vd.x0 = <<3>> /\ vd.y0 = <<2>>
    /\ vd.u = <<256>>

\* the steps of the call and the operator used in search agree
StepsAgreeWithVectorDivision ==
    (Divided /\ vd.alias = "none")
        => vd.u = VectorDivision(vd.x0, vd.y0, Zeros(vd.n))

\* some denominator is 0
SomeZeroDenominator == \E k \in 1..vd.n : vd.y0[k] = 0

\* u[k] is the quotient of x[k] by a y[k] that is not 0
IsQuotient(k) == vd.y0[k] # 0 /\ (vd.u[k] * vd.y0[k]) % FieldP = vd.x0[k]

ZeroDenominatorInSearch ==
    LET f == frame[1]
    IN  f.pc \in {"examine", "yield"}
          => \E nd \in {BatchNumDen(f.pa, f.p, f.batchSize)} :
               (\E k \in 1..(f.batchSize + 1) : nd[2][k] = 0)
                  => /\ f.y = Zeros(f.batchSize + 1)
                     /\ (f.y[f.batchSize + 1] * f.p[3]) % FieldP # 1

\* a batch of search with a denominator that is 0 is being examined
ZeroDenominatorInSearchHappens ==
    LET f == frame[1]
    IN  /\ f.pc = "examine"
        /\ \E k \in 1..f.batchSize : BatchNumDen(f.pa, f.p, f.batchSize)[2][k] = 0
        /\ f.batches = 1


\* ---------------------------------------------------------------- C25
BitsTested == hb # <<>> /\ hb.pc = "tested"

\* b has at least `bits` bits and its first `bits` bits are those of prefix
FirstBitsEqual(b, prefix, bits) ==
    /\ 8 * Len(b) >= bits
    /\ \A k \in 0..(bits - 1) : ByteBit(b, k) = ByteBit(prefix, k)

\* hasPrefixBits accepts exactly 1 <= len(prefix) <= 32, 1 <= bits <= 8 * len(prefix)
BitsAcceptedAsDocumented ==
    (hb # <<>> /\ hb.pc # "args") =>
        ((hb.pc = "panic") <=>
            ~(/\ Len(hb.prefix) >= 1 /\ Len(hb.prefix) <= 32
              /\ hb.bits >= 1 /\ hb.bits <= 8 * Len(hb.prefix)))

PredicateComparesTheWholePrefixOnAByteBoundary ==
    BitsTested =>
        (hb.verdict <=> IF hb.bits % 8 = 0
                        THEN HasPrefixSeq(hb.b, hb.prefix)
                        ELSE FirstBitsEqual(hb.b, hb.prefix, hb.bits))

\* hasPrefixBits({165, 37}, 8) applied to {165, 0}: the first 8 bits are
\* equal and the predicate is false
C25_SecondByteIsCompared ==
    /\ BitsTested
    /\ hb.prefix = <<165, 37>> /\ hb.bits = 8 /\ hb.b = <<165, 0>>
    /\ ~hb.verdict

\* the callers in this repository are not affected: decodePrefixBits gives a
\* number of bits that is a multiple of 8 only with a buffer of that many bits
DecodedPrefixEndsAtItsBits ==
    PrefixesDecoded =>
        \A k \in DOMAIN pm.decoded :
            (~pm.decoded[k].err /\ pm.decoded[k].bits % 8 = 0)
                => 8 * Len(pm.decoded[k].buf) = pm.decoded[k].bits


\* ---------------------------------------------------------------- C26
\* C26: a discovery is not dropped by a cancellation. A worker that calls
\* accept on a candidate and gets true goes to yield with that candidate,
\* the context done or not; a worker in yield does its compare-and-swap on
\* the result slot next, after which the slot is not nil; and a worker
\* returns from search at the poll that opens a batch only, with no
\* candidate accepted and not yet yielded
C26_AcceptedCandidateReachesTheCompareAndSwap ==
    [][\A w \in Workers :
         LET f == frame[w]
             g == frame'[w]
         IN  (g # f) =>
               /\ (f.pc = "examine" /\ Test(test, CandidateBytes(f)))
                    => /\ g.pc = "yield"
                       /\ g.yarg[1] = CandidateBytes(f)
                       /\ g.yields = f.yields
               /\ f.pc = "yield"
                    => /\ g.yields = Append(f.yields, f.yarg)
                       /\ result' # NilPtr
                       /\ result = NilPtr => result' = <<f.yarg[2]>>
                       /\ g.pc # "returned"
               /\ (g.pc = "returned" /\ f.pc # "returned")
                    => f.pc = "poll" /\ f.yarg = <<>>]_vars

\* cancel() has been called by another worker and this worker, in the middle
\* of its batch, has a candidate accepted and is about to compare and swap
C26_Witness ==
    \E w \in Workers :
        /\ cancelCalled
        /\ frame[w].pc = "yield"
        /\ result # NilPtr
        /\ result # <<frame[w].yarg[2]>>

\* with an accept that is always true, a worker that has returned has
\* yielded every candidate it examined
EveryExaminedCandidateWasYielded ==
    \A w \in Workers :
        (test = <<0, 0>> /\ frame[w].pc \in {"returned", "done"})
            => /\ Len(frame[w].yields) = frame[w].acceptCalls
               /\ frame[w].acceptCalls = frame[w].batches * (frame[w].batchSize + 1)

\* the timeout or a signal came in the middle of a batch whose candidate is
\* then yielded
YieldAfterTheCallerIsDone ==
    \E w \in Workers : parentDone /\ frame[w].pc = "yield"


\* ---------------------------------------------------------------- C27
\* C27 as stated: the winning pk is written before the compare-and-swap
\* succeeds, so whenever the result slot is not nil the pk variable of
\* parallel holds the winner's pk
C27_PublicKeyIsWrittenBeforeTheSwap ==
    result # NilPtr => (casWins # <<>> /\ vanityPublicKey = <<casWins[1][1]>>)

\* C27 as the code has it (main.go 301-302): the compare-and-swap comes
\* first and only the worker whose swap succeeded writes the pk. The pk
\* variable is nil or the winner's pk; while the slot is not nil and the pk
\* is still nil the winner is between its swap and its write; and when
\* parallel returns a result, after wg.Wait(), it returns the winner's pk
C27_SwapComesBeforeThePublicKey ==
    /\ vanityPublicKey # <<>>
         => (result # NilPtr /\ casWins # <<>> /\ vanityPublicKey = <<casWins[1][1]>>)
    /\ (result # NilPtr /\ vanityPublicKey = <<>>)
         => \E w \in Workers : frame[w].pc = "store" /\ frame[w].yarg = casWins[1]
    /\ \A w \in Workers :
         frame[w].pc = "store" => (result = <<frame[w].yarg[2]>> /\ vanityPublicKey = <<>>)
    /\ (ParReturned /\ parRet[1] # NilPtr)
         => (parRet[2] # <<>> /\ parRet[2] = <<casWins[1][1]>>)

\* the slot holds the winner's offset and the pk is not written yet, while
\* the other worker is still in its batch
C27_Witness ==
    /\ result # NilPtr
    /\ vanityPublicKey = <<>>
    /\ \E w, v \in Workers :
         /\ frame[w].pc = "store"
         /\ frame[v].pc \in {"examine", "yield"}


\* ---------------------------------------------------------------- C28
\* the 32 bytes of b, and bit 7 of the last of them is 0
SignCleared(b) ==
    /\ Len(KeyBytes(b)) = 32
    /\ KeyBytes(b)[32] \div 128 = 0

\* C28: every byte string search passes to accept or to yield is 32 bytes
\* long with bit 7 of byte 31 equal to 0, the symmetric candidates and the
\* centre alike
C28_CandidatesHaveNoSignBit ==
    LET f == frame[1]
    IN  /\ f.acceptCalls > 0 => SignCleared(f.yb)
        /\ f.pc = "examine" => SignCleared(CandidateBytes(f))
        /\ f.yarg # <<>> => SignCleared(f.yarg[1])
        /\ \A k \in 1..Len(f.yields) : SignCleared(f.yields[k][1])

\* a centre whose x is odd, so that the encoding of the point has the sign
\* bit set, was accepted and is being yielded
C28_Witness ==
    LET f == frame[1]
    IN  /\ f.pc = "yield"
        /\ f.j = f.batchSize
        /\ f.pa[1] % 2 = 1
        /\ f.yarg[1] = f.pa[2]
        /\ f.batches = 2

\* a symmetric candidate has been yielded, and a start key with its sign bit
\* set was given
SymmetricCandidateOfASignedStartKey ==
    LET f == frame[1]
    IN  /\ f.pc = "yield"
        /\ f.j < f.batchSize
        /\ startPublicKey >= SignBit


\* ---------------------------------------------------------------- C29
\* C29: yield is called only with candidates accept returned true for, and
\* with a copy of the bytes: every pk given to yield satisfies test, the pk
\* parallel holds and the pk it returns satisfy test, and the pk returned is
\* the pk of the winning yield call whatever the worker's buffer yb was
\* given afterwards
C29_ReturnedKeySatisfiesThePredicate ==
    /\ \A w \in Workers :
         /\ frame[w].yarg # <<>> => Test(test, frame[w].yarg[1])
         /\ \A k \in 1..Len(frame[w].yields) : Test(test, frame[w].yields[k][1])
    /\ vanityPublicKey # <<>> => Test(test, vanityPublicKey[1])
    /\ (ParReturned /\ parRet[1] # NilPtr)
         => /\ Test(test, parRet[2][1])
            /\ \E w \in Workers : \E k \in 1..Len(frame[w].yields) :
                 frame[w].yields[k] = <<parRet[2][1], parRet[1][1]>>

\* pk, once written, is never written again
PublicKeyIsWrittenOnce ==
    [][vanityPublicKey # <<>> => vanityPublicKey' = vanityPublicKey]_vars

\* parallel has returned the winner's pk, and the buffer of the worker that
\* won holds a later candidate, one that test rejects
C29_Witness ==
    /\ ParReturned
    /\ parRet[1] # NilPtr
    /\ \E w \in Workers :
         /\ frame[w].yields # <<>>
         /\ frame[w].yields[1] = <<parRet[2][1], parRet[1][1]>>
         /\ frame[w].yb # parRet[2][1]
         /\ ~Test(test, frame[w].yb)


\* ---------------------------------------------------------------- C30
\* the public key with bit 7 of byte 31 inverted
FlipSign(p) == [p EXCEPT ![32] = (p[32] + 128) % 256]

\* C30, the predicate: what addressMatch's predicate says of a public key it
\* says of the key with the other sign, and the onion address of a key that
\* matched starts with one of the prefixes for either sign
SignBitDoesNotChangeTheVerdict ==
    (pm # <<>> /\ pm.pc = "tested" /\ ~pm.client)
        => \E q \in {FlipSign(pm.p)} :
             /\ MatchTrue(pm.match.pred, q) = pm.verdict
             /\ pm.verdict
                  => \E address \in {EncodeOnionAddress(q)} :
                       AddressStartsWithAny(address, pm.prefixes)

\* a key with the sign bit set was tested and matched
SignedKeyMatched ==
    /\ pm # <<>> /\ pm.pc = "tested" /\ ~pm.client
    /\ pm.p[32] >= 128
    /\ pm.verdict

\* C30: the predicate does not look at the sign bit, so when a candidate
\* matched, the public key searchServiceKey makes again, with either sign,
\* matches, and longestMatching does not panic: the process exits with 0
C30_ReconstructedKeyMatchesWithEitherSign ==
    (parPc = "exited" /\ parRet[1] # NilPtr)
        => /\ Test(test, cli.vanityPublicKey[1] % SignBit)
           /\ Test(test, (cli.vanityPublicKey[1] % SignBit) + SignBit)
           /\ cli.exit = <<0>>

\* rand.Read gave the start secret key 248, the candidate 401 was found at
\* offset 1, and the key made again from 248 and 1 has no supplied prefix:
\* longestMatching panicked
C30_ReconstructedKeyHasNoPrefix ==
    /\ parPc = "exited"
    /\ cli.startSecretKey = <<248>>
    /\ parRet[1] = <<1>> /\ parRet[2] = <<401>>
    /\ test = <<2, 1>>
    /\ ~Test(test, cli.vanityPublicKey[1])
    /\ cli.exit = <<2>>

\* what holds of the key made again: whenever it has the y coordinate of the
\* candidate that matched, it matches with either sign
SameYMatchesWithEitherSign ==
    (parPc = "exited" /\ parRet[1] # NilPtr
        /\ cli.vanityPublicKey[1] % SignBit = parRet[2][1])
        => /\ Test(test, cli.vanityPublicKey[1] % SignBit)
           /\ Test(test, (cli.vanityPublicKey[1] % SignBit) + SignBit)
           /\ cli.exit = <<0>>

====
